---- MODULE Spec2Model ----
(***************************************************************************)
(* Ropix Share: the receiver-side transfer manager (createTransferManager  *)
(* in frontend) that accepts a signed manifest, ingests hashed chunks and  *)
(* finalizes a file into the "deliver to user" sink.                       *)
(*                                                                         *)
(* JavaScript values are represented as follows.                           *)
(*   - an object is a record; a property the object lacks is a field the   *)
(*     record lacks (Has / Field below);                                   *)
(*   - a Map is a function whose DOMAIN is the set of keys present;        *)
(*   - a reference to a session object held across an await is the flag    *)
(*     `held`: whether the Map still holds that very object.  An object    *)
(*     the Map dropped is never put back, and nothing reads it again;      *)
(*   - a Uint8Array is a sequence of numbers 0..255;                       *)
(*   - a base64 text is a sequence of sextet codes 0..63, with PadChar for *)
(*     '=' and BadChar for a character outside the base64 alphabet;        *)
(*   - SHA-256 is idealised as collision free: the hex digest of an input  *)
(*     is a text that determines the input.                                *)
(***************************************************************************)
EXTENDS Integers, Sequences, FiniteSets, Bags, TLC

(***************************************************************************)
(* Bounds of the model.                                                    *)
(***************************************************************************)
\* calls of handleManifest / handleChunk that may be awaiting a digest at once
\* when the transport alters events
MaxInFlight == 1
\* the same, for events that race (any order, repeated), and in stream order
MaxRacing == 2
MaxStreaming == 2
\* no further chunk is fed to a session whose received-count reached this
MaxReceived == 2
\* events the transport may alter in one run
MaxTampered == 1

\* the two file ids of the model; the sender holds any of Files under "fA"
\* (one chunk or two) and ShortFile (one chunk) under "fB"
FileIds == {"fA", "fB"}
Files == { <<77, 97>>, <<0, 255, 16, 8>> }
ShortFile == <<77>>
\* the files whose events the transport may alter
TamperedFiles == {"fA"}

(***************************************************************************)
(* JavaScript helpers.                                                     *)
(***************************************************************************)
\* the value `undefined`, where a text was expected
Undefined == "<undefined>"

Has(obj, f) == f \in DOMAIN obj
Field(obj, f) == IF f \in DOMAIN obj THEN obj[f] ELSE Undefined

\* String(v) for a text or undefined, as a template literal renders it
Str(v) == IF v = Undefined THEN "undefined" ELSE v

MapSet(m, k, v) == [x \in (DOMAIN m) \cup {k} |-> IF x = k THEN v ELSE m[x]]
MapDelete(m, k) == [x \in (DOMAIN m) \ {k} |-> m[x]]

RECURSIVE Join(_, _)
\* Array.prototype.join
Join(strs, sep) ==
  IF Len(strs) = 0 THEN ""
  ELSE IF Len(strs) = 1 THEN strs[1]
  ELSE strs[1] \o sep \o Join(Tail(strs), sep)

RECURSIVE Concat(_)
\* the bytes of a sequence of byte sequences, in order
Concat(parts) ==
  IF Len(parts) = 0 THEN <<>> ELSE Head(parts) \o Concat(Tail(parts))

(***************************************************************************)
(* Hashing.                                                                *)
(***************************************************************************)
HexDigits == <<"0", "1", "2", "3", "4", "5", "6", "7",
               "8", "9", "a", "b", "c", "d", "e", "f">>

HexByte(b) == HexDigits[(b \div 16) + 1] \o HexDigits[(b % 16) + 1]

\* bufferToHex: two lower-case hex digits per byte
bufferToHex(buffer) == Join([i \in 1..Len(buffer) |-> HexByte(buffer[i])], "")

\* sha256Hex of a byte array (collision free: the digest names its input)
sha256Hex(bufferSource) == "sha256[" \o bufferToHex(bufferSource) \o "]"

\* sha256Hex(textEncoder.encode(payload)): the digest of a text's UTF-8 bytes
sha256HexOfText(payload) == "sha256'" \o payload \o "'"

\* the mutant of computeManifestSignature that leaves total_size unsigned
computeManifestSignature_NoSize(manifest) ==
  LET chunkHashes ==
        Join([i \in 1..Len(manifest.chunks) |-> manifest.chunks[i].hash], "|")
      payload == Str(Field(manifest, "file_id")) \o ":"
                 \o ToString(Len(manifest.chunks)) \o ":" \o chunkHashes
  IN sha256HexOfText(payload)

\* computeManifestSignature; reading manifest.chunks.map of a manifest that
\* has no chunks throws a TypeError (see handleManifest)
computeManifestSignature(manifest) ==
  LET chunkHashes ==
        Join([i \in 1..Len(manifest.chunks) |-> manifest.chunks[i].hash], "|")
      payload == Str(Field(manifest, "file_id")) \o ":"
                 \o ToString(manifest.total_size) \o ":"
                 \o ToString(Len(manifest.chunks)) \o ":" \o chunkHashes
  IN sha256HexOfText(payload)

(***************************************************************************)
(* Base64.                                                                 *)
(***************************************************************************)
PadChar == 64
BadChar == 65

\* atob: strips up to two '=' of a text whose length is a multiple of 4
StripPadding(s) ==
  IF Len(s) > 0 /\ Len(s) % 4 = 0 /\ s[Len(s)] = PadChar
  THEN IF s[Len(s) - 1] = PadChar THEN SubSeq(s, 1, Len(s) - 2)
       ELSE SubSeq(s, 1, Len(s) - 1)
  ELSE s

\* atob throws InvalidCharacterError on these
AtobThrows(base64String) ==
  LET s == StripPadding(base64String)
  IN \/ Len(s) % 4 = 1
     \/ \E i \in 1..Len(s) : s[i] \notin 0..63

RECURSIVE DecodeSextets(_)
\* four sextets give three bytes; a tail of two gives one, of three gives two
DecodeSextets(s) ==
  IF Len(s) < 2 THEN <<>>
  ELSE LET b1 == (s[1] * 4 + (s[2] \div 16)) % 256
       IN IF Len(s) = 2 THEN <<b1>>
          ELSE LET b2 == ((s[2] % 16) * 16 + (s[3] \div 4)) % 256
               IN IF Len(s) = 3 THEN <<b1, b2>>
                  ELSE LET b3 == ((s[3] % 4) * 64 + s[4]) % 256
                       IN <<b1, b2, b3>> \o DecodeSextets(SubSeq(s, 5, Len(s)))

\* base64ToUint8Array: atob, then one byte per character code
base64ToUint8Array(base64String) == DecodeSextets(StripPadding(base64String))

(***************************************************************************)
(* The sender (Chunk Producer).  It runs on the server, whose code is not  *)
(* part of the frontend sources; it is modelled from the specification:    *)
(* fixed-size chunks, one hash per chunk, index = position, the manifest   *)
(* signature attached, base64 transport encoding.                          *)
(***************************************************************************)
ChunkSize == 3

RECURSIVE Slice(_)
Slice(bytes) ==
  IF Len(bytes) = 0 THEN <<>>
  ELSE IF Len(bytes) <= ChunkSize THEN <<bytes>>
  ELSE <<SubSeq(bytes, 1, ChunkSize)>> \o Slice(SubSeq(bytes, ChunkSize + 1, Len(bytes)))

RECURSIVE Base64Encode(_)
Base64Encode(bytes) ==
  IF Len(bytes) = 0 THEN <<>>
  ELSE IF Len(bytes) = 1
    THEN <<bytes[1] \div 4, (bytes[1] % 4) * 16, PadChar, PadChar>>
  ELSE IF Len(bytes) = 2
    THEN <<bytes[1] \div 4, (bytes[1] % 4) * 16 + (bytes[2] \div 16),
           (bytes[2] % 16) * 4, PadChar>>
  ELSE <<bytes[1] \div 4, (bytes[1] % 4) * 16 + (bytes[2] \div 16),
         (bytes[2] % 16) * 4 + (bytes[3] \div 64), bytes[3] % 64>>
       \o Base64Encode(SubSeq(bytes, 4, Len(bytes)))

ProducerManifest(fid, bytes) ==
  LET parts == Slice(bytes)
  IN [file_id |-> fid,
      total_size |-> Len(bytes),
      chunks |-> [i \in 1..Len(parts) |-> [index |-> i - 1, hash |-> sha256Hex(parts[i])]]]

ProducerFilename(fid) == fid \o ".bin"
ProducerMimeType == "application/octet-stream"

\* the file_manifest event of an upload of `bytes` under `fid`
ProducerManifestEvent(fid, bytes) ==
  LET m == ProducerManifest(fid, bytes)
  IN [file_id |-> fid,
      manifest |-> m,
      manifest_signature |-> computeManifestSignature(m),
      filename |-> ProducerFilename(fid),
      mime_type |-> ProducerMimeType]

\* the file_chunk event of chunk `index` (counted from 0)
ProducerChunkEvent(fid, bytes, index) ==
  [file_id |-> fid, chunk_index |-> index,
   content |-> Base64Encode(Slice(bytes)[index + 1])]

(***************************************************************************)
(* What the transport may hand to the receiver: the sender's events, as    *)
(* sent or with one field changed or dropped in transit (the signature and *)
(* the chunk hashes exist to detect exactly that).                         *)
(***************************************************************************)
Other(fid) == CHOOSE g \in FileIds : g # fid

Omit(obj, f) == [x \in (DOMAIN obj) \ {f} |-> obj[x]]

ManifestTampers ==
  {"none", "manifest.file_id", "file_id", "filename", "mime_type", "total_size",
   "chunk.index", "chunk.hash", "chunks.length", "no chunks",
   "no manifest.file_id", "no file_id", "no manifest", "no manifest_signature"}

TamperManifest(d, kind) ==
  CASE kind = "none" -> d
    [] kind = "manifest.file_id" -> [d EXCEPT !.manifest.file_id = Other(@)]
    [] kind = "file_id" -> [d EXCEPT !.file_id = Other(@)]
    [] kind = "filename" -> [d EXCEPT !.filename = "evil.exe"]
    [] kind = "mime_type" -> [d EXCEPT !.mime_type = "text/html"]
    [] kind = "total_size" -> [d EXCEPT !.manifest.total_size = @ + 1]
    [] kind = "chunk.index" -> [d EXCEPT !.manifest.chunks[1].index = @ + 1]
    [] kind = "chunk.hash" -> [d EXCEPT !.manifest.chunks[1].hash = sha256Hex(<<>>)]
    [] kind = "chunks.length" ->
         [d EXCEPT !.manifest.chunks = SubSeq(@, 1, Len(@) - 1)]
    [] kind = "no chunks" -> [d EXCEPT !.manifest = Omit(@, "chunks")]
    [] kind = "no manifest.file_id" -> [d EXCEPT !.manifest = Omit(@, "file_id")]
    [] kind = "no file_id" -> Omit(d, "file_id")
    [] kind = "no manifest" -> Omit(d, "manifest")
    [] kind = "no manifest_signature" -> Omit(d, "manifest_signature")

ChunkTampers ==
  {"none", "bit", "chunk_index", "negative", "reorder", "bad char", "file_id"}

\* the sextet with its lowest bit flipped
FlipBit(c) == IF c % 2 = 0 THEN c + 1 ELSE c - 1

TamperChunk(d, kind, n) ==
  CASE kind = "none" -> d
    [] kind = "bit" -> [d EXCEPT !.content[1] = FlipBit(@)]
    [] kind = "chunk_index" -> [d EXCEPT !.chunk_index = n]
    [] kind = "negative" -> [d EXCEPT !.chunk_index = -1]
    [] kind = "reorder" -> [d EXCEPT !.chunk_index = (@ + 1) % n]
    [] kind = "bad char" -> [d EXCEPT !.content[1] = BadChar]
    [] kind = "file_id" -> [d EXCEPT !.file_id = Other(@)]

(***************************************************************************)
(* State.                                                                  *)
(***************************************************************************)
VARIABLES
  source,        \* the bytes the sender holds under each file id
  cryptoSubtle,  \* whether crypto.subtle exists in this browser context
  sessions,      \* the Map of createTransferManager: key -> session object
  calls,         \* the bag of handleManifest / handleChunk calls awaiting a digest
  tampered,      \* how many events the transport has altered so far
  last,          \* the outcome of the last step: what it threw or delivered
  toasts         \* the addToast calls of the last step, in order

\* App: room entry
VARIABLES
  joinCode,      \* the text of the room-code input
  roomCode,      \* the room the client is in; <<>> stands for null
  roomLoading,   \* a join request is being awaited
  roomError,     \* the error line of the room modal
  roomModalOpen, \* the room modal is shown
  joinRequests   \* the POST /api/room/join/<code> requests awaiting a response

\* App: uploads
VARIABLES
  uploads,        \* the handleFilesUpload calls awaiting their request: id -> call
  uploadXhrRef,   \* the ref: [current |-> id of the call whose request it holds]
  uploadStatus,   \* the status line
  uploadProgress, \* the percentage shown
  emitted         \* the socket.emit calls of the last step, in order

\* the server's rooms, and what each client knows of its room
VARIABLES
  rooms,          \* the Room Registry: code -> the identities of its devices
  reply,          \* the outcome of the last Room Registry operation
  outbox,         \* identity -> the devices_updated snapshots sent to it and
                  \* not yet delivered, oldest first
  devices         \* identity -> the devices list of that client's App

\* the sender's progress and the user's downloads
VARIABLES
  sent,           \* file id -> how many events of the file's stream the socket
                  \* has delivered: manifest, chunks in order, completion
  delivered       \* the keys onComplete was called for since a manifest was
                  \* last accepted under them

\* App: the indicator of a file another device uploads
VARIABLES
  receivingFile,  \* the receivingFile state; the empty record stands for null
  clearTimers     \* the bag of setTimeout callbacks of receiving_complete not
                  \* yet run, each with the file name shown when it was set

\* App: the room kept for reconnection
VARIABLES
  storedRoom,     \* sessionStorage 'ropix-room-code'; <<>> stands for no item
  leftRooms       \* the rooms leave_room was emitted for and the user has not
                  \* entered again since

\* App: leaving the room
VARIABLES
  leaveRequests   \* the leaveRoom calls awaiting POST /api/room/leave

transferVars == <<source, cryptoSubtle, sessions, calls, tampered, last>>

roomEntryVars ==
  <<joinCode, roomCode, roomLoading, roomError, roomModalOpen, joinRequests>>

\* the state of the App component outside the transfer manager
uploadVars == <<uploads, uploadXhrRef, uploadStatus, uploadProgress, emitted>>

roomVars == <<rooms, reply, outbox, devices>>

streamVars == <<sent, delivered>>

leaveVars == <<leaveRequests>>

receivingVars == <<receivingFile, clearTimers>>

sessionVars == <<storedRoom, leftRooms>>

appVars ==
  <<roomEntryVars, uploadVars, roomVars, streamVars, leaveVars, receivingVars,
    sessionVars>>

\* what the handlers of one part leave alone
outsideRoomEntry ==
  <<transferVars, uploads, uploadXhrRef, uploadStatus, uploadProgress, roomVars,
    streamVars, leaveVars, receivingVars>>
outsideUpload ==
  <<transferVars, roomEntryVars, roomVars, streamVars, leaveVars, receivingVars,
    sessionVars>>
outsideRooms ==
  <<transferVars, roomEntryVars, uploadVars, streamVars, leaveVars, receivingVars,
    sessionVars>>
outsideTransfer ==
  <<roomEntryVars, uploadVars, roomVars, leaveVars, receivingVars, sessionVars>>

vars == <<transferVars, toasts, appVars>>

\* the error messages of the transfer manager, under the specification's names
CryptoUnavailable == "Web Crypto API is required for secure transfers."
ManifestInvalid == "Manifest payload missing required fields."
SignatureMismatch == "Manifest signature mismatch."
NoActiveSession == "Received chunk before manifest negotiation."
UnexpectedChunkIndex == "Unexpected chunk index"
ChunkHashMismatch == "Hash mismatch for chunk"
UnknownTransfer == "Transfer complete for unknown file."
IncompleteTransfer == "Transfer incomplete; missing chunks detected."
\* thrown by the runtime, not by the manager
TypeError == "TypeError"
InvalidCharacterError == "InvalidCharacterError"

\* the keys a session can be stored under: data.file_id, which may be missing
MapKeys == FileIds \cup {Undefined}

\* the room state hooks of App as first rendered
RoomEntryInit ==
  /\ joinCode = <<>>
  /\ roomCode = <<>>
  /\ roomLoading = FALSE
  /\ roomError = ""
  /\ roomModalOpen = TRUE
  /\ joinRequests = {}

\* a ref whose current is null
NullRef == [k \in {} |-> 0]

\* the upload state hooks and the ref of App as first rendered
UploadInit ==
  /\ uploads = [k \in {} |-> 0]
  /\ uploadXhrRef = NullRef
  /\ uploadStatus = ""
  /\ uploadProgress = 0
  /\ emitted = <<>>

\* no room is registered, nothing was sent, every client's list is empty
RoomsInit ==
  /\ rooms = [k \in {} |-> 0]
  /\ reply = [op |-> "init", result |-> "ok"]
  /\ outbox = [k \in {} |-> 0]
  /\ devices = [k \in {} |-> 0]

\* the sender has emitted nothing, the user has received nothing
StreamInit ==
  /\ sent = [fid \in FileIds |-> 0]
  /\ delivered = {}

\* no leaveRoom call is awaiting its request
LeaveInit == leaveRequests = 0

\* useState(null) of receivingFile
NoIndicator == [k \in {} |-> 0]

\* no indicator is shown and no timeout is set
ReceivingInit ==
  /\ receivingFile = NoIndicator
  /\ clearTimers = EmptyBag

\* the roomCode effect of the first render removed the item, roomCode being null
SessionInit ==
  /\ storedRoom = <<>>
  /\ leftRooms = {}

\* App as first rendered, and the server as started
AppInit ==
  /\ RoomEntryInit /\ UploadInit /\ RoomsInit /\ StreamInit /\ LeaveInit
  /\ ReceivingInit /\ SessionInit

Init ==
  /\ AppInit
  /\ source \in {s \in [FileIds -> Files \cup {ShortFile}] :
                    s["fA"] \in Files /\ s["fB"] = ShortFile}
  /\ cryptoSubtle \in BOOLEAN
  /\ sessions = [k \in {} |-> 0]
  /\ calls = EmptyBag
  /\ tampered = 0
  /\ last = [op |-> "init", result |-> "ok"]
  /\ toasts = <<>>

(***************************************************************************)
(* createTransferManager.                                                  *)
(***************************************************************************)
\* `!obj.f` is false for a text property: it is there and not empty
TruthyText(obj, f) == Has(obj, f) /\ obj[f] # ""

\* new Array(n): n empty slots; items holds the slots assigned so far
NewArray(n) == [length |-> n, items |-> [i \in {} |-> <<>>]]

\* array[i] = v
ArrayPut(array, i, v) == [array EXCEPT !.items = MapSet(@, i, v)]

\* the text "undefined", which is what an empty slot contributes to a Blob
UndefinedText == <<117, 110, 100, 101, 102, 105, 110, 101, 100>>

\* the mutant of BlobBytes that assembles the parts from the last to the first
BlobBytes_Reversed(array) ==
  Concat([i \in 1..array.length |->
            IF (array.length - i) \in DOMAIN array.items
            THEN array.items[array.length - i]
            ELSE UndefinedText])

\* new Blob(chunkBuffers): the parts of the array in index order
BlobBytes(array) ==
  Concat([i \in 1..array.length |->
            IF (i - 1) \in DOMAIN array.items THEN array.items[i - 1]
            ELSE UndefinedText])

\* the calls, once sessions.set(key, ...) or sessions.delete(key) has made the
\* Map drop the object it held under key
Dropped(key) ==
  LET drop(call) == IF call.op = "handleChunk" /\ call.data.file_id = key
                    THEN [call EXCEPT !.held = FALSE]
                    ELSE call
  IN BagOfAll(drop, calls)

\* sessions.set(key, ...) replaces a session that had stored a chunk
Overwrites(key) == Has(sessions, key) /\ sessions[key].receivedChunks > 0

\* the mutant of NewSession that carries the progress of the session it
\* replaces over to the new one
NewSession_KeepsProgress(data) ==
  LET key == Field(data, "file_id")
  IN [manifest |-> data.manifest,
      filename |-> Field(data, "filename"),
      mimeType |-> Field(data, "mime_type"),
      chunkBuffers |-> IF Has(sessions, key) THEN sessions[key].chunkBuffers
                       ELSE NewArray(Len(data.manifest.chunks)),
      receivedChunks |-> IF Has(sessions, key) THEN sessions[key].receivedChunks
                         ELSE 0]

\* the session object handleManifest stores for an accepted manifest
NewSession(data) ==
  [manifest |-> data.manifest,
   filename |-> Field(data, "filename"),
   mimeType |-> Field(data, "mime_type"),
   chunkBuffers |-> NewArray(Len(data.manifest.chunks)),
   receivedChunks |-> 0]

\* the mutant of StoreChunk that writes the chunk into the empty array it read
\* at lookup, so that a chunk stored meanwhile is lost
StoreChunk_StaleBuffers(transfer, index, chunkBytes) ==
  [transfer EXCEPT
     !.chunkBuffers = ArrayPut(NewArray(transfer.chunkBuffers.length), index, chunkBytes),
     !.receivedChunks = @ + 1]

\* the mutant of StoreChunk that appends the chunk in arrival order
StoreChunk_Appends(transfer, index, chunkBytes) ==
  [transfer EXCEPT
     !.chunkBuffers = ArrayPut(@, transfer.receivedChunks, chunkBytes),
     !.receivedChunks = @ + 1]

\* the session object after handleChunk stored a verified chunk in it
StoreChunk(transfer, index, chunkBytes) ==
  [transfer EXCEPT
     !.chunkBuffers = ArrayPut(@, index, chunkBytes),
     !.receivedChunks = @ + 1]

\* the mutant of DiscardSession that clears the whole Map
DiscardSession_All(fileId) == [k \in {} |-> 0]

\* the mutant of DiscardSession that leaves the session in the Map
DiscardSession_Kept(fileId) == sessions

\* the Map after handleChunk met a hash mismatch: sessions.delete(file_id)
DiscardSession(fileId) == MapDelete(sessions, fileId)

\* the mutant of Incomplete that only refuses a session with no chunk at all
Incomplete_OnlyWhenEmpty(transfer) == transfer.receivedChunks = 0

\* finalize's guard against assembling a file with missing chunks
Incomplete(transfer) == transfer.receivedChunks # Len(transfer.manifest.chunks)

\* handleManifest up to its await: the checks, then the digest is requested
handleManifest(kind, data) ==
  LET out(result) == [op |-> "handleManifest", kind |-> kind,
                      file_id |-> Field(data, "file_id"), result |-> result]
  IN /\ UNCHANGED <<source, cryptoSubtle, sessions>>
     /\ IF ~cryptoSubtle
        THEN /\ last' = out(CryptoUnavailable)
             /\ UNCHANGED calls
        ELSE IF ~Has(data, "manifest") \/ ~TruthyText(data, "manifest_signature")
        THEN /\ last' = out(ManifestInvalid)
             /\ UNCHANGED calls
        ELSE IF ~Has(data.manifest, "chunks")
        THEN /\ last' = out(TypeError)
             /\ UNCHANGED calls
        ELSE /\ calls' = calls (+) SetToBag({[op |-> "handleManifest", kind |-> kind,
                                              data |-> data]})
             /\ last' = out("pending")

\* the mutant of handleManifestResume that stores the session before it
\* compares the signature
handleManifestResume_CommitsFirst(call) ==
  LET data == call.data
      signature == computeManifestSignature(data.manifest)
  IN /\ call.op = "handleManifest"
     /\ UNCHANGED <<source, cryptoSubtle, tampered>>
     /\ sessions' = MapSet(sessions, Field(data, "file_id"), NewSession(data))
     /\ calls' = Dropped(Field(data, "file_id")) (-) SetToBag({call})
     /\ last' = [op |-> "handleManifest", kind |-> call.kind,
                 file_id |-> Field(data, "file_id"),
                 result |-> IF signature # data.manifest_signature
                            THEN SignatureMismatch ELSE "ok"]

\* handleManifest after its await: the signature is compared, the session set
handleManifestResume(call) ==
  LET data == call.data
      signature == computeManifestSignature(data.manifest)
      out(result) == [op |-> "handleManifest", kind |-> call.kind,
                      file_id |-> Field(data, "file_id"), result |-> result]
  IN /\ call.op = "handleManifest"
     /\ UNCHANGED <<source, cryptoSubtle, tampered>>
     /\ IF signature # data.manifest_signature
        THEN /\ last' = out(SignatureMismatch)
             /\ calls' = calls (-) SetToBag({call})
             /\ UNCHANGED sessions
        ELSE /\ sessions' = MapSet(sessions, Field(data, "file_id"), NewSession(data))
             /\ calls' = Dropped(Field(data, "file_id")) (-) SetToBag({call})
             /\ last' = [op |-> "handleManifest", kind |-> call.kind,
                         file_id |-> Field(data, "file_id"), result |-> "ok",
                         overwrote |-> Overwrites(Field(data, "file_id"))]

\* the mutant of handleChunk that lets a chunk without a session pass in silence
handleChunk_IgnoresUnknown(kind, data) ==
  LET out(result) == [op |-> "handleChunk", kind |-> kind,
                      file_id |-> data.file_id, result |-> result]
  IN /\ UNCHANGED <<source, cryptoSubtle, sessions>>
     /\ IF ~Has(sessions, data.file_id)
        THEN /\ last' = out("ok")
             /\ UNCHANGED calls
        ELSE LET transfer == sessions[data.file_id]
             IN IF data.chunk_index \notin 0..(Len(transfer.manifest.chunks) - 1)
                THEN /\ last' = out(UnexpectedChunkIndex)
                     /\ UNCHANGED calls
                ELSE IF AtobThrows(data.content)
                THEN /\ last' = out(InvalidCharacterError)
                     /\ UNCHANGED calls
                ELSE /\ calls' = calls (+) SetToBag({
                          [op |-> "handleChunk", kind |-> kind, data |-> data,
                           held |-> TRUE,
                           expected |-> transfer.manifest.chunks[data.chunk_index + 1],
                           chunkBytes |-> base64ToUint8Array(data.content)]})
                     /\ last' = out("pending")

\* the mutant of handleChunk that treats an unexpected index like a hash
\* mismatch and deletes the session
handleChunk_DiscardsOnBadIndex(kind, data) ==
  LET out(result) == [op |-> "handleChunk", kind |-> kind,
                      file_id |-> data.file_id, result |-> result]
  IN /\ UNCHANGED <<source, cryptoSubtle>>
     /\ IF ~Has(sessions, data.file_id)
        THEN /\ last' = out(NoActiveSession)
             /\ UNCHANGED <<sessions, calls>>
        ELSE LET transfer == sessions[data.file_id]
             IN IF data.chunk_index \notin 0..(Len(transfer.manifest.chunks) - 1)
                THEN /\ last' = out(UnexpectedChunkIndex)
                     /\ sessions' = MapDelete(sessions, data.file_id)
                     /\ calls' = Dropped(data.file_id)
                ELSE IF AtobThrows(data.content)
                THEN /\ last' = out(InvalidCharacterError)
                     /\ UNCHANGED <<sessions, calls>>
                ELSE /\ UNCHANGED sessions
                     /\ calls' = calls (+) SetToBag({
                          [op |-> "handleChunk", kind |-> kind, data |-> data,
                           held |-> TRUE,
                           expected |-> transfer.manifest.chunks[data.chunk_index + 1],
                           chunkBytes |-> base64ToUint8Array(data.content)]})
                     /\ last' = out("pending")

\* handleChunk up to its await: session lookup, index check, base64 decoding
handleChunk(kind, data) ==
  LET out(result) == [op |-> "handleChunk", kind |-> kind,
                      file_id |-> data.file_id, result |-> result]
  IN /\ UNCHANGED <<source, cryptoSubtle, sessions>>
     /\ IF ~Has(sessions, data.file_id)
        THEN /\ last' = out(NoActiveSession)
             /\ UNCHANGED calls
        ELSE LET transfer == sessions[data.file_id]
             IN IF data.chunk_index \notin 0..(Len(transfer.manifest.chunks) - 1)
                THEN /\ last' = out(UnexpectedChunkIndex)
                     /\ UNCHANGED calls
                ELSE IF AtobThrows(data.content)
                THEN /\ last' = out(InvalidCharacterError)
                     /\ UNCHANGED calls
                ELSE /\ calls' = calls (+) SetToBag({
                          [op |-> "handleChunk", kind |-> kind, data |-> data,
                           held |-> TRUE,
                           expected |-> transfer.manifest.chunks[data.chunk_index + 1],
                           chunkBytes |-> base64ToUint8Array(data.content)]})
                     /\ last' = out("pending")

\* handleChunk after its await: the digest is compared; the chunk is stored in
\* the session object the call looked up, whether or not the Map still holds it
handleChunkResume(call) ==
  LET data == call.data
      digest == sha256Hex(call.chunkBytes)
      out(result) == [op |-> "handleChunk", kind |-> call.kind,
                      file_id |-> data.file_id, result |-> result]
  IN /\ call.op = "handleChunk"
     /\ UNCHANGED <<source, cryptoSubtle, tampered>>
     /\ IF digest # call.expected.hash
        THEN /\ sessions' = DiscardSession(data.file_id)
             /\ calls' = Dropped(data.file_id) (-) SetToBag({call})
             /\ last' = out(ChunkHashMismatch)
        ELSE /\ sessions' =
                  IF call.held
                  THEN [sessions EXCEPT ![data.file_id] =
                          StoreChunk(@, data.chunk_index, call.chunkBytes)]
                  ELSE sessions
             /\ calls' = calls (-) SetToBag({call})
             /\ last' = out("ok")

\* the mutant of finalize that leaves the session in the Map after delivery
finalize_KeepsSession(fileId) ==
  LET out(result) == [op |-> "finalize", file_id |-> fileId, result |-> result]
  IN /\ UNCHANGED <<source, cryptoSubtle, tampered>>
     /\ IF ~Has(sessions, fileId)
        THEN /\ last' = out(UnknownTransfer)
             /\ UNCHANGED <<sessions, calls>>
        ELSE LET transfer == sessions[fileId]
             IN IF Incomplete(transfer)
                THEN /\ sessions' = MapDelete(sessions, fileId)
                     /\ calls' = Dropped(fileId)
                     /\ last' = out(IncompleteTransfer)
                ELSE /\ last' = [op |-> "finalize", file_id |-> fileId,
                                 result |-> "ok",
                                 blob |-> BlobBytes(transfer.chunkBuffers),
                                 type |-> transfer.mimeType,
                                 filename |-> IF transfer.filename \in {Undefined, ""}
                                              THEN "file-" \o Str(fileId)
                                              ELSE transfer.filename]
                     /\ UNCHANGED <<sessions, calls>>

\* finalize; on success onComplete(fileId, blob, filename) is called, which
\* `last` records as blob (the bytes), type and filename
finalize(fileId) ==
  LET out(result) == [op |-> "finalize", file_id |-> fileId, result |-> result]
  IN /\ UNCHANGED <<source, cryptoSubtle, tampered>>
     /\ IF ~Has(sessions, fileId)
        THEN /\ last' = out(UnknownTransfer)
             /\ UNCHANGED <<sessions, calls>>
        ELSE LET transfer == sessions[fileId]
             IN IF Incomplete(transfer)
                THEN /\ sessions' = MapDelete(sessions, fileId)
                     /\ calls' = Dropped(fileId)
                     /\ last' = out(IncompleteTransfer)
                ELSE /\ last' = [op |-> "finalize", file_id |-> fileId,
                                 result |-> "ok",
                                 blob |-> BlobBytes(transfer.chunkBuffers),
                                 type |-> transfer.mimeType,
                                 filename |-> IF transfer.filename \in {Undefined, ""}
                                              THEN "file-" \o Str(fileId)
                                              ELSE transfer.filename]
                     /\ sessions' = MapDelete(sessions, fileId)
                     /\ calls' = Dropped(fileId)

(***************************************************************************)
(* The events the socket delivers, and the digests that complete.          *)
(***************************************************************************)
\* the chunks of the sender's file under fid
Chunks(fid) == Slice(source[fid])

\* a chunk event is delivered only while the addressed session counts fewer
\* than MaxReceived chunks (the bound on the received-count)
ChunkAdmitted(data) ==
  Has(sessions, data.file_id) => sessions[data.file_id].receivedChunks < MaxReceived

\* the transport alters at most MaxTampered events, of the files TamperedFiles
Transit(fid, kind) ==
  /\ kind # "none" => (fid \in TamperedFiles /\ tampered < MaxTampered)
  /\ tampered' = IF kind = "none" THEN tampered ELSE tampered + 1

\* a call reaches its await only while fewer than `limit` calls await a digest
\* (the bound on the calls in flight)
Admits(limit) == last'.result = "pending" => BagCardinality(calls) < limit

\* addToast(message, variant), as the call the step makes
addToast(message, variant) == [message |-> message, variant |-> variant]

\* the step of the transfer manager threw, or rejected its promise
Thrown(outcome) == outcome.result \notin {"ok", "pending"}

\* the mutant of Caught in which the promise of handleChunk has no .catch
Caught_ChunkUnhandled ==
  toasts' = IF Thrown(last') /\ last'.op # "handleChunk"
            THEN <<addToast(last'.result, "error")>>
            ELSE <<>>

\* .catch((error) => addToast(error.message, 'error')) of the file_manifest
\* and file_chunk handlers, and the try/catch around finalize
Caught ==
  toasts' = IF Thrown(last') THEN <<addToast(last'.result, "error")>> ELSE <<>>

OnFileManifest ==
  \E fid \in FileIds, kind \in ManifestTampers :
    /\ Transit(fid, kind)
    /\ handleManifest(kind, TamperManifest(ProducerManifestEvent(fid, source[fid]), kind))
    /\ Admits(MaxInFlight)
    /\ Caught
    /\ UNCHANGED appVars

OnFileChunk ==
  \E fid \in FileIds, kind \in ChunkTampers :
    \E index \in 0..(Len(Chunks(fid)) - 1) :
      LET data == TamperChunk(ProducerChunkEvent(fid, source[fid], index), kind,
                              Len(Chunks(fid)))
      IN /\ kind = "reorder" => Len(Chunks(fid)) > 1
         /\ ChunkAdmitted(data)
         /\ Transit(fid, kind)
         /\ handleChunk(kind, data)
         /\ Admits(MaxInFlight)
         /\ Caught
         /\ UNCHANGED appVars

OnFileTransferComplete ==
  \E fileId \in MapKeys : finalize(fileId) /\ Caught /\ UNCHANGED appVars

ManifestDigestDone ==
  \E call \in BagToSet(calls) :
    handleManifestResume(call) /\ Caught /\ UNCHANGED appVars

ChunkDigestDone ==
  \E call \in BagToSet(calls) :
    handleChunkResume(call) /\ Caught /\ UNCHANGED appVars

Next ==
  \/ OnFileManifest
  \/ OnFileChunk
  \/ OnFileTransferComplete
  \/ ManifestDigestDone
  \/ ChunkDigestDone

Spec == Init /\ [][Next]_vars

(***************************************************************************)
(* Vocabulary of the properties.                                           *)
(***************************************************************************)
\* the number of chunks the manifest of a session lists
ChunkCount(transfer) == Len(transfer.manifest.chunks)

\* the indices of the slots of a session that hold a payload
Filled(transfer) == DOMAIN transfer.chunkBuffers.items

\* every slot 0..N-1 holds a payload whose digest is the manifest's hash for it
AllSlotsVerified(transfer) ==
  \A i \in 0..(ChunkCount(transfer) - 1) :
    /\ i \in Filled(transfer)
    /\ sha256Hex(transfer.chunkBuffers.items[i]) = transfer.manifest.chunks[i + 1].hash

\* the step just taken was a finalize that called onComplete
Delivers == last'.op = "finalize" /\ last'.result = "ok"

\* the step completes the handleChunk call `call`, whose digest is now known
Completes(call) == call.op = "handleChunk" /\ handleChunkResume(call)

\* the file_chunk events the socket can deliver when the transport alters
\* them in the way `kind`
ChunkDeliveries(kind) ==
  UNION {{TamperChunk(ProducerChunkEvent(fid, source[fid], index), kind,
                      Len(Chunks(fid))) :
            index \in 0..(Len(Chunks(fid)) - 1)} :
         fid \in FileIds}

\* the name finalize hands to onComplete for a session
DeliveredName(fileId, transfer) ==
  IF transfer.filename \in {Undefined, ""} THEN "file-" \o Str(fileId)
  ELSE transfer.filename

(***************************************************************************)
(* C1: onComplete is invoked for a file_id only when every slot 0..N-1 of  *)
(* its session holds a payload whose digest equals the manifest's hash for *)
(* that index; a file with an empty slot is never handed to the user.      *)
(* As stated this fails: a duplicate delivery raises the received-count.   *)
(***************************************************************************)
C1_DeliversOnlyVerifiedFiles ==
  [][Delivers =>
       /\ Has(sessions, last'.file_id)
       /\ AllSlotsVerified(sessions[last'.file_id])]_vars

(***************************************************************************)
(* C2: a handleChunk whose payload digest differs from the manifest hash   *)
(* recorded for its index signals ChunkHashMismatch and discards the       *)
(* session; from then on no session exists for that file_id, and so no     *)
(* finalize delivers it, until a handleManifest for that file_id succeeds. *)
(***************************************************************************)
C2_MismatchDiscardsSession ==
  [][/\ \A call \in BagToSet(calls) :
          (Completes(call) /\ sha256Hex(call.chunkBytes) # call.expected.hash)
          => /\ last'.result = ChunkHashMismatch
             /\ ~Has(sessions', call.data.file_id)
     /\ \A k \in MapKeys :
          /\ (~Has(sessions, k) /\ Has(sessions', k))
             => (last'.op = "handleManifest" /\ last'.result = "ok" /\ last'.file_id = k)
          /\ (Delivers /\ last'.file_id = k) => Has(sessions, k)]_vars

\* a corrupted chunk of a session that already held a chunk has been rejected
C2_Witness ==
  /\ last.op = "handleChunk" /\ last.kind = "bit"
  /\ last.result = ChunkHashMismatch
  /\ ~Has(sessions, last.file_id)

(***************************************************************************)
(* C3, as stated: a manifest with any one field changed (file_id,          *)
(* filename, mime_type, total_size, a chunk's index or a chunk's hash) and *)
(* the old signature fails with SignatureMismatch.  The signature covers   *)
(* file_id, total_size, the chunk count and the chunk hashes only.         *)
(***************************************************************************)
C3_AnyFieldChangeRejected ==
  (/\ last.op = "handleManifest"
   /\ last.kind \in {"manifest.file_id", "filename", "mime_type", "total_size",
                     "chunk.index", "chunk.hash"}
   /\ last.result # "pending"
   /\ cryptoSubtle)
  => last.result = SignatureMismatch

(***************************************************************************)
(* C3, amended: a manifest whose own file_id, total_size or a chunk hash   *)
(* was changed under the old signature is rejected, with SignatureMismatch *)
(* where crypto.subtle exists and with the crypto-required error where it  *)
(* does not, and the rejection leaves the session Map as it was.           *)
(***************************************************************************)
C3_SignedFieldChangeRejected ==
  [][(/\ last'.op = "handleManifest"
      /\ last'.kind \in {"manifest.file_id", "total_size", "chunk.hash"}
      /\ last'.result # "pending")
     => /\ last'.result = IF cryptoSubtle THEN SignatureMismatch ELSE CryptoUnavailable
        /\ sessions' = sessions]_vars

\* a manifest with a changed total_size has been rejected for its signature
C3_Witness ==
  /\ last.op = "handleManifest" /\ last.kind = "total_size"
  /\ last.result = SignatureMismatch

(***************************************************************************)
(* C4: a valid chunk delivered for an index whose slot is already filled   *)
(* overwrites the slot and leaves the received-count as it was.            *)
(* As stated this fails: the count is raised on every delivery.            *)
(***************************************************************************)
C4_DuplicateIsIdempotent ==
  [][\A call \in BagToSet(calls) :
       (/\ Completes(call)
        /\ call.held
        /\ sha256Hex(call.chunkBytes) = call.expected.hash
        /\ call.data.chunk_index \in Filled(sessions[call.data.file_id]))
       => /\ sessions'[call.data.file_id].receivedChunks
               = sessions[call.data.file_id].receivedChunks
          /\ sessions'[call.data.file_id].chunkBuffers.items[call.data.chunk_index]
               = call.chunkBytes]_vars

(***************************************************************************)
(* C5: finalize on a session whose received-count differs from the chunk   *)
(* count of its manifest fails with IncompleteTransfer and does not call   *)
(* the sink.                                                               *)
(***************************************************************************)
C5_IncompleteIsRefused ==
  [][(/\ last'.op = "finalize"
      /\ Has(sessions, last'.file_id)
      /\ sessions[last'.file_id].receivedChunks # ChunkCount(sessions[last'.file_id]))
     => /\ last'.result = IncompleteTransfer
        /\ ~Has(last', "blob")]_vars

\* a finalize has been refused as incomplete
C5_Witness ==
  /\ last.op = "finalize" /\ last.result = IncompleteTransfer
  /\ ~Has(last, "blob")

(***************************************************************************)
(* C6: after a finalize that failed with IncompleteTransfer the session    *)
(* is still there, so that the missing chunk can be ingested and a later   *)
(* finalize succeeds.  As stated this fails: finalize deletes the session. *)
(***************************************************************************)
C6_SessionSurvivesIncompleteFinalize ==
  [][(last'.op = "finalize" /\ last'.result = IncompleteTransfer)
     => Has(sessions', last'.file_id)]_vars

(***************************************************************************)
(* C7: round trip.  When the sender's manifest was accepted and each of    *)
(* its N chunks was ingested exactly once, finalize hands the sink the     *)
(* concatenation of the chunk payloads in index order, which is the        *)
(* sender's byte sequence.                                                 *)
(***************************************************************************)
C7_RoundTrip ==
  [][\A k \in FileIds :
       (/\ last'.op = "finalize" /\ last'.file_id = k
        /\ Has(sessions, k)
        /\ sessions[k].manifest = ProducerManifest(k, source[k])
        /\ Filled(sessions[k]) = 0..(Len(Chunks(k)) - 1)
        /\ sessions[k].receivedChunks = Len(Chunks(k)))
       => /\ Delivers
          /\ last'.blob = source[k]]_vars

\* a file of two chunks has been delivered, equal to the sender's bytes
C7_Witness ==
  /\ last.op = "finalize" /\ last.result = "ok" /\ last.file_id = "fA"
  /\ Len(Chunks("fA")) = 2
  /\ last.blob = source["fA"]

(***************************************************************************)
(* C8: order independence.  Whatever the order in which the chunks of a    *)
(* file arrive, and however the chunks of two files interleave, a filled   *)
(* slot i holds the payload of index i, and once every chunk is ingested   *)
(* finalize delivers the payloads in index order.                          *)
(***************************************************************************)
C8_OrderIndependence ==
  [][/\ \A k \in DOMAIN sessions : \A i \in Filled(sessions[k]) :
          /\ i \in 0..(ChunkCount(sessions[k]) - 1)
          /\ sha256Hex(sessions[k].chunkBuffers.items[i])
               = sessions[k].manifest.chunks[i + 1].hash
     /\ \A k \in MapKeys :
          (/\ last'.op = "finalize" /\ last'.file_id = k
           /\ Has(sessions, k)
           /\ AllSlotsVerified(sessions[k])
           /\ sessions[k].receivedChunks = ChunkCount(sessions[k]))
          => /\ Delivers
             /\ last'.blob = Concat([i \in 1..ChunkCount(sessions[k]) |->
                                       sessions[k].chunkBuffers.items[i - 1]])]_vars

\* "fB" has been delivered whole while "fA" holds its second chunk and not yet
\* its first
C8_Witness ==
  /\ last.op = "finalize" /\ last.result = "ok" /\ last.file_id = "fB"
  /\ last.blob = source["fB"]
  /\ Has(sessions, "fA")
  /\ Filled(sessions["fA"]) = {1}

(***************************************************************************)
(* C9: a manifest payload that lacks `chunks` or lacks `file_id` is        *)
(* rejected as ManifestInvalid before any signature is computed.           *)
(* As stated this fails: only `manifest` and `manifest_signature` are      *)
(* looked for.                                                             *)
(***************************************************************************)
C9_FailsClosed ==
  (/\ last.op = "handleManifest"
   /\ last.kind \in {"no chunks", "no manifest.file_id", "no file_id"}
   /\ cryptoSubtle)
  => last.result = ManifestInvalid

(***************************************************************************)
(* C10: a manifest that handleManifest rejects (ManifestInvalid or         *)
(* SignatureMismatch) leaves the session Map unchanged; a session already  *)
(* receiving under that file_id keeps its manifest, slots and count.       *)
(***************************************************************************)
C10_RejectedManifestCommitsNothing ==
  [][(/\ last'.op = "handleManifest"
      /\ last'.result \in {ManifestInvalid, SignatureMismatch})
     => sessions' = sessions]_vars

\* a manifest has been rejected while the session of its file_id held a chunk
C10_Witness ==
  /\ last.op = "handleManifest" /\ last.result = SignatureMismatch
  /\ Has(sessions, last.file_id)
  /\ sessions[last.file_id].receivedChunks > 0

(***************************************************************************)
(* C11: accepting a valid manifest for a file_id whose session is still    *)
(* receiving replaces that session: the stored session has the new         *)
(* manifest, filename and mime type, every slot empty and a received-count *)
(* of 0, and a call still waiting on a chunk of the replaced session no    *)
(* longer writes into the stored one, so that chunks of the prior manifest *)
(* do not count toward finalize.                                           *)
(***************************************************************************)
C11_ManifestReplacesSession ==
  [][\A call \in BagToSet(calls) :
       (/\ call.op = "handleManifest"
        /\ handleManifestResume(call)
        /\ last'.result = "ok")
       => LET key == Field(call.data, "file_id")
          IN /\ Has(sessions', key)
             /\ sessions'[key].manifest = call.data.manifest
             /\ sessions'[key].filename = Field(call.data, "filename")
             /\ sessions'[key].mimeType = Field(call.data, "mime_type")
             /\ Filled(sessions'[key]) = {}
             /\ sessions'[key].chunkBuffers.length = Len(call.data.manifest.chunks)
             /\ sessions'[key].receivedChunks = 0
             /\ Incomplete(sessions'[key])
             /\ \A c \in BagToSet(calls') :
                  (c.op = "handleChunk" /\ c.data.file_id = key) => ~c.held]_vars

\* a manifest has been accepted over a session that had stored a chunk
C11_Witness ==
  /\ last.op = "handleManifest" /\ last.result = "ok"
  /\ last.overwrote
  /\ sessions[last.file_id].receivedChunks = 0
  /\ Filled(sessions[last.file_id]) = {}

(***************************************************************************)
(* C12: a handleChunk for a file_id with no session (never accepted,       *)
(* already finalized or already discarded) fails with NoActiveSession; the *)
(* failure creates no session and leaves every existing session, and every *)
(* call in flight, as it was.                                              *)
(***************************************************************************)
C12_ChunkWithoutSessionFails ==
  [][last'.op = "handleChunk"
     => \A data \in ChunkDeliveries(last'.kind) :
          (~Has(sessions, data.file_id) /\ handleChunk(last'.kind, data))
          => /\ last'.result = NoActiveSession
             /\ sessions' = sessions
             /\ calls' = calls]_vars

\* a chunk without a session has been refused while the session of the
\* other file held a chunk
C12_Witness ==
  /\ last.op = "handleChunk" /\ last.result = NoActiveSession
  /\ ~Has(sessions, last.file_id)
  /\ \E k \in DOMAIN sessions : Filled(sessions[k]) # {}

(***************************************************************************)
(* C13: a handleChunk whose index lies outside [0, chunks.length) of the   *)
(* session's manifest fails with UnexpectedChunkIndex and leaves the       *)
(* session receiving, its slots and its received-count unchanged.          *)
(***************************************************************************)
C13_BadIndexLeavesSession ==
  [][last'.op = "handleChunk"
     => \A data \in ChunkDeliveries(last'.kind) :
          (/\ Has(sessions, data.file_id)
           /\ data.chunk_index \notin 0..(ChunkCount(sessions[data.file_id]) - 1)
           /\ handleChunk(last'.kind, data))
          => /\ last'.result = UnexpectedChunkIndex
             /\ sessions' = sessions
             /\ calls' = calls]_vars

\* a chunk with an index out of range has been refused by a session that
\* holds a chunk
C13_Witness ==
  /\ last.op = "handleChunk" /\ last.result = UnexpectedChunkIndex
  /\ Has(sessions, last.file_id)
  /\ Filled(sessions[last.file_id]) # {}

(***************************************************************************)
(* C14: a successful finalize hands the assembled bytes, with the          *)
(* session's filename and mime type, to the sink and destroys the session, *)
(* so that a second finalize with no manifest accepted in between fails    *)
(* with UnknownTransfer; so does a finalize for a file_id that never had a *)
(* session.                                                                *)
(***************************************************************************)
C14_FinalizeDestroysSession ==
  [][/\ Delivers
        => /\ Has(sessions, last'.file_id)
           /\ last'.blob = BlobBytes(sessions[last'.file_id].chunkBuffers)
           /\ last'.filename = DeliveredName(last'.file_id, sessions[last'.file_id])
           /\ last'.type = sessions[last'.file_id].mimeType
           /\ ~Has(sessions', last'.file_id)
     /\ \A fileId \in MapKeys :
          (last'.op = "finalize" /\ ~Has(sessions, fileId) /\ finalize(fileId))
          => /\ last'.result = UnknownTransfer
             /\ sessions' = sessions]_vars

\* a file has been delivered under the sender's filename and mime type and
\* its session is gone
C14_Witness ==
  /\ last.op = "finalize" /\ last.result = "ok"
  /\ last.filename = ProducerFilename(last.file_id)
  /\ last.type = ProducerMimeType
  /\ last.blob = source[last.file_id]
  /\ ~Has(sessions, last.file_id)

(***************************************************************************)
(* C15: session isolation.  A handleManifest, handleChunk or finalize      *)
(* addressed to one file_id, whether it succeeds or fails, neither creates *)
(* nor destroys nor changes the session of any other file_id.              *)
(***************************************************************************)
C15_SessionIsolation ==
  [][\A k \in MapKeys :
       k # last'.file_id
       => /\ Has(sessions', k) <=> Has(sessions, k)
          /\ Has(sessions, k) => sessions'[k] = sessions[k]]_vars

\* a chunk of one file failed its hash check while the session of the other
\* file held a chunk
C15_Witness ==
  /\ last.op = "handleChunk" /\ last.result = ChunkHashMismatch
  /\ ~Has(sessions, last.file_id)
  /\ \E k \in DOMAIN sessions : k # last.file_id /\ Filled(sessions[k]) # {}

\* everything a step of the transfer manager can throw
Failures ==
  {CryptoUnavailable, ManifestInvalid, SignatureMismatch, NoActiveSession,
   UnexpectedChunkIndex, ChunkHashMismatch, UnknownTransfer, IncompleteTransfer,
   TypeError, InvalidCharacterError}

(***************************************************************************)
(* C16: no failure of the transfer manager is swallowed by the client.     *)
(* Whenever handleManifest, handleChunk or finalize, run for a             *)
(* file_manifest, file_chunk or file_transfer_complete event, fails (at    *)
(* once or after its digest), the same step calls addToast with the        *)
(* failure's message and the variant 'error'; a step that does not fail    *)
(* raises no error notification.                                           *)
(***************************************************************************)
C16_FailuresAreNotified ==
  [][/\ last'.op \in {"handleManifest", "handleChunk", "finalize"}
     /\ last'.result \in Failures
        => toasts' = <<[message |-> last'.result, variant |-> "error"]>>
     /\ last'.result \notin Failures
        => /\ last'.result \in {"ok", "pending"}
           /\ toasts' = <<>>]_vars

\* a chunk failed its hash check after the digest, and the user was told
C16_Witness ==
  /\ last.op = "handleChunk" /\ last.result = ChunkHashMismatch
  /\ toasts = <<[message |-> ChunkHashMismatch, variant |-> "error"]>>

(***************************************************************************)
(* App: entering a room by typing its code or by scanning a QR code.       *)
(* A text is a sequence of characters; the origin and the query prefix of  *)
(* a scanned URL each count as one character that is no letter or digit.   *)
(***************************************************************************)
LowerCase ==
  <<"a", "b", "c", "d", "e", "f", "g", "h", "i", "j", "k", "l", "m",
    "n", "o", "p", "q", "r", "s", "t", "u", "v", "w", "x", "y", "z">>

UpperCase ==
  <<"A", "B", "C", "D", "E", "F", "G", "H", "I", "J", "K", "L", "M",
    "N", "O", "P", "Q", "R", "S", "T", "U", "V", "W", "X", "Y", "Z">>

Digit == {"0", "1", "2", "3", "4", "5", "6", "7", "8", "9"}

\* the upper-case letter of each lower-case letter
Upper ==
  [c \in {LowerCase[n] : n \in 1..Len(LowerCase)} |->
     UpperCase[CHOOSE n \in 1..Len(LowerCase) : LowerCase[n] = c]]

\* String.prototype.toUpperCase
toUpperCase(text) ==
  [i \in 1..Len(text) |-> IF text[i] \in DOMAIN Upper THEN Upper[text[i]] ELSE text[i]]

\* String.prototype.trim
RECURSIVE trim(_)
trim(text) ==
  IF text = <<>> THEN text
  ELSE IF Head(text) = " " THEN trim(Tail(text))
  ELSE IF text[Len(text)] = " " THEN trim(SubSeq(text, 1, Len(text) - 1))
  ELSE text

\* /^[A-Z0-9]{6}$/.test(code)
RoomCodeLength == 6

RoomCodeChars == Digit \cup {UpperCase[n] : n \in 1..Len(UpperCase)}

IsRoomCode(code) ==
  /\ Len(code) = RoomCodeLength
  /\ \A i \in 1..Len(code) : code[i] \in RoomCodeChars

\* <input maxLength={6}>
InputMaxLength == 6

\* what the user may have in the room-code input after an edit
TypedTexts ==
  {<<>>,
   <<" ", " ">>,
   <<"a", "b", "c", "1", "2", "3">>,
   <<"A", "B", "C", "1", "2", "3">>,
   <<"x", "y", "z", "7", "8", "9">>,
   <<"a", "b", "c">>,
   <<"a", "b", "-", "1", "2", "3">>,
   <<"a", "b", " ", "1", "2", "3">>,
   <<" ", "a", "b", "c", "1", " ">>}

\* what a QR code may decode to
UrlOrigin == "https://ropix.local/"
RoomQuery == "?room="
OtherQuery == "?theme="

ScannedTexts ==
  {<<"a", "b", "c", "1", "2", "3">>,
   <<" ", "A", "B", "C", "1", "2", "3", " ">>,
   <<"a", "b", "c">>,
   <<"a", "b", "c", "1", "2", "3", "4">>,
   <<"a", "b", "/", "1", "2", "3">>,
   <<UrlOrigin, RoomQuery, "x", "y", "z", "7", "8", "9">>,
   <<UrlOrigin, RoomQuery, "a", "b", "c">>,
   <<UrlOrigin, RoomQuery>>,
   <<UrlOrigin, OtherQuery, "a", "b", "c", "1", "2", "3">>,
   <<UrlOrigin>>}

\* new URL(text) does not throw
IsUrl(text) == text # <<>> /\ Head(text) = UrlOrigin

\* new URL(text).searchParams.get('room'); <<>> stands for null
RoomParam(text) ==
  IF Len(text) >= 2 /\ text[2] = RoomQuery THEN SubSeq(text, 3, Len(text))
  ELSE <<>>

\* the rooms the server has registered, and its replies to a join request
KnownRooms == {<<"A", "B", "C", "1", "2", "3">>}

JoinOutcomes == {"joined", "error", "error without text", "network"}

\* the bound on the join requests awaiting a response
MaxJoinRequests == 2

\* onChange={(e) => setJoinCode(e.target.value.toUpperCase())}
OnChangeJoinCode(text) ==
  /\ Len(text) <= InputMaxLength
  /\ joinCode' = toUpperCase(text)
  /\ toasts' = <<>>
  /\ UNCHANGED <<roomCode, roomLoading, roomError, roomModalOpen, joinRequests>>

\* joinRoom up to its await: the request is sent unless the input is blank
joinRoom ==
  IF trim(joinCode) = <<>>
  THEN /\ roomError' = "Please enter a room code"
       /\ toasts' = <<>>
       /\ UNCHANGED <<joinCode, roomCode, roomLoading, roomModalOpen, joinRequests>>
  ELSE /\ Cardinality(joinRequests) < MaxJoinRequests
       /\ roomLoading' = TRUE
       /\ roomError' = ""
       /\ joinRequests' = joinRequests \cup
            {[origin |-> "joinRoom", code |-> toUpperCase(trim(joinCode))]}
       /\ toasts' = <<>>
       /\ UNCHANGED <<joinCode, roomCode, roomModalOpen>>

\* handleScanSuccess up to its fetch: the code is taken from the room
\* parameter of a URL or from the text itself, cleaned and tested
handleScanSuccess(decodedText) ==
  LET roomParam == IF IsUrl(decodedText) THEN RoomParam(decodedText) ELSE <<>>
      code == trim(toUpperCase(IF roomParam # <<>> THEN roomParam ELSE decodedText))
  IN IF IsRoomCode(code)
     THEN /\ Cardinality(joinRequests) < MaxJoinRequests
          /\ joinCode' = code
          /\ roomLoading' = TRUE
          /\ joinRequests' = joinRequests \cup
               {[origin |-> "handleScanSuccess", code |-> code]}
          /\ toasts' = <<>>
          /\ UNCHANGED <<roomCode, roomError, roomModalOpen>>
     ELSE /\ toasts' = <<addToast("Invalid QR code. Expected a room code.", "error")>>
          /\ UNCHANGED roomEntryVars

\* the rest of joinRoom and of handleScanSuccess, once the server answered
\* (or the request failed); the server's answer follows the specification
JoinResponse(request, outcome) ==
  /\ request \in joinRequests
  /\ outcome = "joined" => request.code \in KnownRooms
  /\ joinRequests' = joinRequests \ {request}
  /\ roomLoading' = FALSE
  /\ UNCHANGED joinCode
  /\ IF outcome = "joined"
     THEN /\ roomCode' = request.code
          /\ roomModalOpen' = FALSE
          /\ toasts' = <<addToast("Joined room", "success")>>
          /\ UNCHANGED roomError
     ELSE LET message == CASE outcome = "error" -> "Room is full"
                           [] outcome = "error without text" -> "Room not found"
                           [] outcome = "network" -> "Failed to fetch"
          IN /\ UNCHANGED <<roomCode, roomModalOpen>>
             /\ IF request.origin = "joinRoom"
                THEN roomError' = message /\ toasts' = <<>>
                ELSE toasts' = <<addToast(message, "error")>> /\ UNCHANGED roomError

\* the transfer manager at rest, for the specifications of the other parts
TransferIdle ==
  /\ source = [fid \in FileIds |-> ShortFile]
  /\ cryptoSubtle = TRUE
  /\ sessions = [k \in {} |-> 0]
  /\ calls = EmptyBag
  /\ tampered = 0
  /\ last = [op |-> "init", result |-> "ok"]

RoomEntryInitial == TransferIdle /\ toasts = <<>> /\ AppInit

\* socket.emit('join_room', {room_code, device_info: deviceInfo})
JoinRoomEvent(code) ==
  [event |-> "join_room", room_code |-> code, filename |-> "",
   more |-> "deviceInfo"]

\* useEffect on roomCode, run after a render in which roomCode has changed:
\* with a room, setItem and emit join_room; with none, removeItem
roomCodeEffect ==
  IF roomCode' # roomCode
  THEN /\ storedRoom' = roomCode'
       /\ emitted' = IF roomCode' # <<>> THEN <<JoinRoomEvent(roomCode')>> ELSE <<>>
  ELSE /\ UNCHANGED storedRoom
       /\ emitted' = <<>>

UserTypes ==
  \E text \in TypedTexts :
    /\ OnChangeJoinCode(text)
    /\ emitted' = <<>>
    /\ UNCHANGED <<sessionVars, outsideRoomEntry>>

UserJoins ==
  /\ joinRoom
  /\ emitted' = <<>>
  /\ UNCHANGED <<sessionVars, outsideRoomEntry>>

UserScans ==
  \E text \in ScannedTexts :
    /\ handleScanSuccess(text)
    /\ emitted' = <<>>
    /\ UNCHANGED <<sessionVars, outsideRoomEntry>>

\* the answer to a join request, and the roomCode effect of the render that
\* follows; a room the user has entered again is no longer a room it left
ServerAnswers ==
  \E request \in joinRequests, outcome \in JoinOutcomes :
    /\ JoinResponse(request, outcome)
    /\ roomCodeEffect
    /\ leftRooms' = IF outcome = "joined" THEN leftRooms \ {request.code}
                                          ELSE leftRooms
    /\ UNCHANGED outsideRoomEntry

RoomEntryNext == UserTypes \/ UserJoins \/ UserScans \/ ServerAnswers

RoomEntrySpec == RoomEntryInitial /\ [][RoomEntryNext]_vars

(***************************************************************************)
(* C17: every room-join request the client issues, from joinRoom or from   *)
(* handleScanSuccess, carries an uppercase code of exactly 6 characters    *)
(* from [A-Z0-9]; for any other input no join request is sent.             *)
(* As stated this fails: joinRoom sends whatever the input holds, trimmed. *)
(***************************************************************************)
C17_JoinRequestsCarryRoomCodes ==
  \A request \in joinRequests : IsRoomCode(request.code)

(***************************************************************************)
(* App: uploading files, and cancelling the upload.  A handleFilesUpload   *)
(* call sends its files one request after the other; each request is an    *)
(* XMLHttpRequest the call awaits.  All calls share the one uploadXhrRef.  *)
(***************************************************************************)
\* the bound on the handleFilesUpload calls running at once
MaxUploads == 2

\* the FileLists a user may drop or select
FileLists == {<<"a.txt">>, <<"a.txt", "b.png">>}

\* e.loaded / e.total * 100 of a progress event
FileProgress == {50}

CancelReasons == {"All receivers dismissed the transfer"}

Ref(id) == [current |-> id]

\* Math.round(n / total) for n >= 0
Percent(n, total) == (2 * n + total) \div (2 * total)

\* socket.emit(event, {...}) under `if (socketRef.current && roomCode)`, with
\* the roomCode of the render in which handleFilesUpload was created
Emits(call, event, more) ==
  IF call.room_code # <<>>
  THEN <<[event |-> event, room_code |-> call.room_code,
          filename |-> call.file, more |-> more]>>
  ELSE <<>>

\* the mutant of Settled that announces the next file of the batch before the
\* handler of the request that ended has emitted its signal
Settled_AnnouncesFirst(id, succeeded, before, reset) ==
  LET call == uploads[id]
      done == call.completed + (IF succeeded THEN 1 ELSE 0)
  IN IF call.files = <<>>
     THEN /\ uploads' = MapDelete(uploads, id)
          /\ uploadXhrRef' = NullRef
          /\ uploadStatus' = ""
          /\ uploadProgress' = 0
          /\ emitted' = before
     ELSE LET next == [call EXCEPT !.file = Head(call.files),
                                   !.files = Tail(call.files),
                                   !.completed = done]
          IN /\ uploads' = [uploads EXCEPT ![id] = next]
             /\ uploadXhrRef' = Ref(id)
             /\ uploadStatus' = IF reset THEN "" ELSE uploadStatus
             /\ uploadProgress' =
                  IF succeeded THEN Percent(100 * done, call.total)
                  ELSE IF reset THEN 0 ELSE uploadProgress
             /\ emitted' = Emits(next, "upload_start", "") \o before

\* the loop of handleFilesUpload after the promise of the call's request
\* settled: the next file is announced and sent, or the loop ends
Settled(id, succeeded, before, reset) ==
  LET call == uploads[id]
      done == call.completed + (IF succeeded THEN 1 ELSE 0)
  IN IF call.files = <<>>
     THEN /\ uploads' = MapDelete(uploads, id)
          /\ uploadXhrRef' = NullRef
          /\ uploadStatus' = ""
          /\ uploadProgress' = 0
          /\ emitted' = before
     ELSE LET next == [call EXCEPT !.file = Head(call.files),
                                   !.files = Tail(call.files),
                                   !.completed = done]
          IN /\ uploads' = [uploads EXCEPT ![id] = next]
             /\ uploadXhrRef' = Ref(id)
             /\ uploadStatus' = IF reset THEN "" ELSE uploadStatus
             /\ uploadProgress' =
                  IF succeeded THEN Percent(100 * done, call.total)
                  ELSE IF reset THEN 0 ELSE uploadProgress
             /\ emitted' = before \o Emits(next, "upload_start", "")

\* handleFilesUpload up to its first await
handleFilesUpload(fileList) ==
  /\ Cardinality(DOMAIN uploads) < MaxUploads
  /\ LET id == CHOOSE i \in 1..MaxUploads :
                 i \notin DOMAIN uploads /\ \A j \in 1..(i - 1) : j \in DOMAIN uploads
         call == [file |-> Head(fileList), files |-> Tail(fileList),
                  total |-> Len(fileList), completed |-> 0, room_code |-> roomCode]
     IN /\ uploads' = MapSet(uploads, id, call)
        /\ uploadXhrRef' = Ref(id)
        /\ emitted' = Emits(call, "upload_start", "")
  /\ uploadStatus' = "Uploading " \o ToString(Len(fileList)) \o " file(s)"
  /\ uploadProgress' = 0
  /\ toasts' = <<>>

\* xhr.upload.onprogress
onprogress(id, fileProgress) ==
  LET call == uploads[id]
  IN /\ uploadProgress' = Percent(100 * call.completed + fileProgress, call.total)
     /\ emitted' = Emits(call, "upload_progress", ToString(fileProgress))
     /\ toasts' = <<>>
     /\ UNCHANGED <<uploads, uploadXhrRef, uploadStatus>>

\* xhr.onload, and the loop of the call up to its next await
onload(id, succeeded) ==
  /\ toasts' = <<IF succeeded THEN addToast("playful message", "info")
                 ELSE addToast("Upload failed", "error")>>
  /\ Settled(id, succeeded,
             IF succeeded THEN Emits(uploads[id], "upload_complete", "") ELSE <<>>,
             FALSE)

\* xhr.onerror, and the loop of the call up to its next await
onerror(id) ==
  /\ toasts' = <<addToast("Network error", "error")>>
  /\ Settled(id, FALSE, <<>>, FALSE)

\* xhr.onabort, run by abort(), and the loop of the call up to its next
\* await, which runs once the handler that called abort() has returned
onabort(id, reset) ==
  Settled(id, FALSE, Emits(uploads[id], "upload_complete", "cancelled"), reset)

\* socket.on('cancel_upload')
OnCancelUpload(reason) ==
  /\ toasts' = <<addToast(reason, "info")>>
  /\ IF Has(uploadXhrRef, "current")
     THEN onabort(uploadXhrRef.current, FALSE)
     ELSE UNCHANGED <<uploads, uploadXhrRef, uploadStatus, uploadProgress>>
          /\ emitted' = <<>>

\* cancelUpload, the Cancel button
cancelUpload ==
  IF Has(uploadXhrRef, "current")
  THEN /\ onabort(uploadXhrRef.current, TRUE)
       /\ toasts' = <<addToast("Upload cancelled", "info")>>
  ELSE /\ uploadStatus' = ""
       /\ uploadProgress' = 0
       /\ emitted' = <<>>
       /\ toasts' = <<>>
       /\ UNCHANGED <<uploads, uploadXhrRef>>

\* the leaveRoom calls that may be awaiting their request at once
MaxLeaveRequests == 1

\* the ways POST /api/room/leave ends: fetch resolves, or rejects
LeaveOutcomes == {"resolved", "network error"}

\* leaveRoom up to its await
leaveRoom ==
  /\ leaveRequests < MaxLeaveRequests
  /\ leaveRequests' = leaveRequests + 1
  /\ emitted' = IF roomCode # <<>>
                THEN <<[event |-> "leave_room", room_code |-> roomCode,
                        filename |-> "", more |-> ""]>>
                ELSE <<>>
  /\ toasts' = <<>>
  /\ UNCHANGED <<roomEntryVars, uploads, uploadXhrRef, uploadStatus, uploadProgress>>

\* leaveRoom after its await; a rejected fetch ends the call there
leaveRoomResume(outcome) ==
  /\ leaveRequests > 0
  /\ leaveRequests' = leaveRequests - 1
  /\ emitted' = <<>>
  /\ toasts' = <<>>
  /\ IF outcome = "resolved"
     THEN /\ roomCode' = <<>>
          /\ joinCode' = <<>>
          /\ roomModalOpen' = TRUE
          /\ UNCHANGED <<roomLoading, roomError, joinRequests>>
     ELSE UNCHANGED roomEntryVars
  /\ UNCHANGED <<uploads, uploadXhrRef, uploadStatus, uploadProgress>>

\* the client has entered a room, or has not
UploadInitial ==
  /\ TransferIdle
  /\ toasts = <<>>
  /\ UploadInit
  /\ RoomsInit
  /\ StreamInit
  /\ LeaveInit
  /\ ReceivingInit
  /\ leftRooms = {}
  /\ roomCode \in KnownRooms \cup {<<>>}
  /\ storedRoom = roomCode
  /\ joinCode = roomCode
  /\ roomModalOpen = (roomCode = <<>>)
  /\ roomLoading = FALSE
  /\ roomError = ""
  /\ joinRequests = {}

UserDropsFiles ==
  \E fileList \in FileLists :
    handleFilesUpload(fileList) /\ UNCHANGED outsideUpload

XhrProgress ==
  \E id \in DOMAIN uploads, fileProgress \in FileProgress :
    onprogress(id, fileProgress) /\ UNCHANGED outsideUpload

XhrLoad ==
  \E id \in DOMAIN uploads, succeeded \in BOOLEAN :
    onload(id, succeeded) /\ UNCHANGED outsideUpload

XhrError ==
  \E id \in DOMAIN uploads :
    onerror(id) /\ UNCHANGED outsideUpload

ServerCancels ==
  \E reason \in CancelReasons :
    OnCancelUpload(reason) /\ UNCHANGED outsideUpload

UserCancels == cancelUpload /\ UNCHANGED outsideUpload

\* the Leave Room button, which the room banner shows while roomCode is set
UserLeaves ==
  /\ roomCode # <<>>
  /\ leaveRoom
  /\ leftRooms' = leftRooms \cup {roomCode}
  /\ UNCHANGED <<storedRoom, transferVars, roomVars, streamVars, receivingVars>>

\* the rest of leaveRoom, and the roomCode effect of the render that follows
LeaveAnswered ==
  \E outcome \in LeaveOutcomes :
    /\ leaveRoomResume(outcome)
    /\ roomCodeEffect
    /\ UNCHANGED <<leftRooms, transferVars, roomVars, streamVars, receivingVars>>

UploadNext ==
  \/ UserDropsFiles
  \/ XhrProgress
  \/ XhrLoad
  \/ XhrError
  \/ ServerCancels
  \/ UserCancels
  \/ UserLeaves
  \/ LeaveAnswered

UploadSpec == UploadInitial /\ [][UploadNext]_vars

\* every upload request ends: it loads or fails, unless it is aborted first
UploadFairSpec == UploadSpec /\ WF_vars(XhrLoad \/ XhrError)

\* the calls whose request is in flight and was announced to a room
Announced == {id \in DOMAIN uploads : uploads[id].room_code # <<>>}

\* the request the call `id` had in flight is no longer the call's request
Aborted(id) ==
  id \notin DOMAIN uploads' \/ uploads'[id].file # uploads[id].file

(***************************************************************************)
(* C18: when the client receives cancel_upload while an upload request is  *)
(* in flight, that request is aborted and the client emits upload_complete *)
(* with cancelled = true for its file; when no upload is in flight,        *)
(* cancel_upload aborts nothing and emits no lifecycle signal.             *)
(* As stated this fails once two handleFilesUpload calls overlap.          *)
(***************************************************************************)
C18_CancelAbortsUploadInFlight ==
  [][\A reason \in CancelReasons :
       OnCancelUpload(reason)
       => /\ Announced # {}
             => \E id \in Announced :
                  /\ Aborted(id)
                  /\ \E n \in 1..Len(emitted') :
                       /\ emitted'[n].event = "upload_complete"
                       /\ emitted'[n].more = "cancelled"
                       /\ emitted'[n].filename = uploads[id].file
          /\ DOMAIN uploads = {}
             => (emitted' = <<>> /\ uploads' = uploads)]_vars

(***************************************************************************)
(* The Room Registry of the server, after sections 4.4 and 5 of the        *)
(* specification: its operations on one room run one at a time.  A device  *)
(* is its connection identity; its display name plays no part here.        *)
(***************************************************************************)
\* the bound on the connection identities that ask to join
MaxDevices == 11

Identities == 1..MaxDevices

\* "Up to 10 devices per room"
RoomCapacity == 10

RoomNotFound == "RoomNotFound"
RoomFull == "RoomFull"
CodeSpaceExhausted == "CodeSpaceExhausted"

\* the codes createRoom can generate, and the codes clients ask for
CodeSpace == KnownRooms

CodesAsked ==
  CodeSpace \cup {<<"a", "b", "c", "1", "2", "3">>, <<"Z", "Z", "Z", "9", "9", "9">>}

\* createRoom() -> code
createRoom ==
  IF CodeSpace \subseteq DOMAIN rooms
  THEN /\ reply' = [op |-> "createRoom", result |-> CodeSpaceExhausted]
       /\ UNCHANGED rooms
  ELSE \E code \in CodeSpace \ DOMAIN rooms :
         /\ rooms' = MapSet(rooms, code, {})
         /\ reply' = [op |-> "createRoom", result |-> "ok"]

\* the mutant of joinRoom that refuses a device only above the capacity
joinRoom_OffByOne(code, device) ==
  LET key == toUpperCase(code)
      out(result) == [op |-> "joinRoom", result |-> result]
  IN IF ~IsRoomCode(key) \/ key \notin DOMAIN rooms
     THEN reply' = out(RoomNotFound) /\ UNCHANGED rooms
     ELSE IF Cardinality(rooms[key]) > RoomCapacity
     THEN reply' = out(RoomFull) /\ UNCHANGED rooms
     ELSE /\ rooms' = [rooms EXCEPT ![key] = @ \cup {device}]
          /\ reply' = out("ok")

\* joinRoom(code, device) -> ok
registryJoinRoom(code, device) ==
  LET key == toUpperCase(code)
      out(result) == [op |-> "joinRoom", result |-> result]
  IN IF ~IsRoomCode(key) \/ key \notin DOMAIN rooms
     THEN reply' = out(RoomNotFound) /\ UNCHANGED rooms
     ELSE IF Cardinality(rooms[key]) = RoomCapacity
     THEN reply' = out(RoomFull) /\ UNCHANGED rooms
     ELSE /\ rooms' = [rooms EXCEPT ![key] = @ \cup {device}]
          /\ reply' = out("ok")

\* leaveRoom(code, deviceId); the bookkeeping of a room left empty is kept
\* or reaped
registryLeaveRoom(code, deviceId) ==
  LET key == toUpperCase(code)
      out(result) == [op |-> "leaveRoom", result |-> result]
  IN IF ~IsRoomCode(key) \/ key \notin DOMAIN rooms
     THEN reply' = out(RoomNotFound) /\ UNCHANGED rooms
     ELSE /\ reply' = out("ok")
          /\ \/ rooms' = [rooms EXCEPT ![key] = @ \ {deviceId}]
             \/ /\ rooms[key] \ {deviceId} = {}
                /\ rooms' = MapDelete(rooms, key)

RegistryInitial == TransferIdle /\ toasts = <<>> /\ AppInit

RegistryCreates ==
  createRoom /\ UNCHANGED <<outbox, devices, toasts, outsideRooms>>

RegistryJoins ==
  \E code \in CodesAsked, device \in Identities :
    registryJoinRoom(code, device) /\ UNCHANGED <<outbox, devices, toasts, outsideRooms>>

RegistryLeaves ==
  \E code \in CodesAsked, device \in Identities :
    registryLeaveRoom(code, device) /\ UNCHANGED <<outbox, devices, toasts, outsideRooms>>

RegistryNext == RegistryCreates \/ RegistryJoins \/ RegistryLeaves

RegistrySpec == RegistryInitial /\ [][RegistryNext]_vars

(***************************************************************************)
(* C19: a room never holds more than 10 devices, in any state reached by   *)
(* joins and leaves in any order; a join by a new identity into a room of  *)
(* 9 succeeds and adds the device, and a join by a new identity into a     *)
(* room of 10 fails with RoomFull and changes nothing.                     *)
(***************************************************************************)
C19_RoomNeverExceedsCapacity ==
  /\ [](\A code \in DOMAIN rooms : Cardinality(rooms[code]) <= RoomCapacity)
  /\ [][\A code \in DOMAIN rooms : \A device \in Identities \ rooms[code] :
          (reply'.op = "joinRoom" /\ registryJoinRoom(code, device))
          => /\ Cardinality(rooms[code]) = RoomCapacity - 1
                => (reply'.result = "ok" /\ rooms'[code] = rooms[code] \cup {device})
             /\ Cardinality(rooms[code]) = RoomCapacity
                => (reply'.result = RoomFull /\ rooms' = rooms)]_vars

\* a join was refused by a room that holds 10 devices
C19_Witness ==
  /\ reply.op = "joinRoom" /\ reply.result = RoomFull
  /\ \E code \in DOMAIN rooms : Cardinality(rooms[code]) = RoomCapacity

(***************************************************************************)
(* Presence.  The server, after section 4.5 of the specification, sends    *)
(* the full device list of a room to every member after each change of     *)
(* its device set; each client's devices_updated handler replaces its list *)
(* with the snapshot and derives the join and leave notifications.         *)
(***************************************************************************)
\* the bound on the devices that take part, and on the snapshots sent to
\* one client and not yet delivered
MaxMembers == 3

MaxOutbox == 2

Members == 1..MaxMembers

\* a device as listed in a snapshot; a client may report no name
Device(identity) ==
  IF identity % 3 = 0 THEN [id |-> identity]
  ELSE [id |-> identity, name |-> "Device " \o ToString(identity)]

\* the device list of a room, in the order of the identities
RECURSIVE Snapshot(_)
Snapshot(identities) ==
  IF identities = {} THEN <<>>
  ELSE LET least == CHOOSE d \in identities : \A e \in identities : d <= e
       IN <<Device(least)>> \o Snapshot(identities \ {least})

\* the devices_updated event that carries the device list of a room
SnapshotEvent(identities) == [devices |-> Snapshot(identities)]

\* the snapshots sent to a client and not yet delivered; its devices list
Outbox(identity) == IF identity \in DOMAIN outbox THEN outbox[identity] ELSE <<>>

Devices(identity) == IF identity \in DOMAIN devices THEN devices[identity] ELSE <<>>

\* the snapshot of the room under key is sent to each of its members
Broadcast(key) ==
  IF key \in DOMAIN rooms'
  THEN outbox' = [d \in DOMAIN outbox \cup rooms'[key] |->
                    IF d \in rooms'[key]
                    THEN Append(Outbox(d), SnapshotEvent(rooms'[key]))
                    ELSE outbox[d]]
  ELSE UNCHANGED outbox

\* no member of a room has MaxOutbox snapshots waiting
OutboxAdmits == \A d \in DOMAIN outbox : Len(outbox[d]) < MaxOutbox

\* join_room on the server: the registry, then the presence broadcast
OnJoinRoom(code, device) ==
  /\ OutboxAdmits
  /\ registryJoinRoom(code, device)
  /\ IF reply'.result = "ok" THEN Broadcast(toUpperCase(code)) ELSE UNCHANGED outbox
  /\ UNCHANGED devices

\* a device closes its connection: the server takes it out of its room and
\* tells the others; nothing more is delivered to it and its App is gone
OnDisconnect(code, device) ==
  /\ OutboxAdmits
  /\ device \in DOMAIN outbox
  /\ registryLeaveRoom(code, device)
  /\ LET key == toUpperCase(code)
         stay == DOMAIN outbox \ {device}
     IN outbox' = [d \in stay |->
                     IF key \in DOMAIN rooms' /\ d \in rooms'[key]
                     THEN Append(outbox[d], SnapshotEvent(rooms'[key]))
                     ELSE outbox[d]]
  /\ devices' = MapDelete(devices, device)

\* the mutant of NextDelivery for a transport that reorders
NextDelivery_AnyOrder(identity) == 1..Len(Outbox(identity))

\* which waiting snapshot the socket delivers next: the oldest
NextDelivery(identity) == IF Outbox(identity) = <<>> THEN {} ELSE {1}

\* the toasts of the devices_updated handler
PresenceToasts(prevDevices, newDevices) ==
  IF Len(newDevices) > Len(prevDevices) /\ Len(prevDevices) > 0
  THEN LET prevIds == {prevDevices[i].id : i \in 1..Len(prevDevices)}
           joined(d) == d.id \notin prevIds
           joinedDevices == SelectSeq(newDevices, joined)
       IN [i \in 1..Len(joinedDevices) |->
             addToast((IF Has(joinedDevices[i], "name") THEN joinedDevices[i].name
                       ELSE "A device") \o " joined the room!", "success")]
  ELSE IF Len(newDevices) < Len(prevDevices)
  THEN <<addToast("A device left the room", "info")>>
  ELSE <<>>

\* deviceList || []
NewDevices(data) == IF Has(data, "devices") THEN data.devices ELSE <<>>

\* the mutant of the devices_updated handler that adds the devices of the
\* snapshot to the list it has
setDevices_Merges(identity, data) ==
  LET prevIds == {Devices(identity)[i].id : i \in 1..Len(Devices(identity))}
      fresh(d) == d.id \notin prevIds
  IN /\ devices' = MapSet(devices, identity,
                          Devices(identity) \o SelectSeq(NewDevices(data), fresh))
     /\ toasts' = PresenceToasts(Devices(identity), NewDevices(data))

\* the setDevices updater of the devices_updated handler of client `identity`
setDevices(identity, data) ==
  /\ devices' = MapSet(devices, identity, NewDevices(data))
  /\ toasts' = PresenceToasts(Devices(identity), NewDevices(data))

\* socket.on('devices_updated') of the client `identity`, for the n-th of
\* the snapshots waiting for it
OnDevicesUpdated(identity, n) ==
  /\ setDevices(identity, outbox[identity][n])
  /\ outbox' = [outbox EXCEPT ![identity] =
                  SubSeq(@, 1, n - 1) \o SubSeq(@, n + 1, Len(@))]
  /\ UNCHANGED <<rooms, reply>>

ServerCreatesRoom ==
  createRoom /\ UNCHANGED <<outbox, devices, toasts, outsideRooms>>

DeviceJoins ==
  \E code \in CodeSpace, device \in Members :
    OnJoinRoom(code, device) /\ toasts' = <<>> /\ UNCHANGED outsideRooms

DeviceLeaves ==
  \E code \in CodeSpace, device \in Members :
    OnDisconnect(code, device) /\ toasts' = <<>> /\ UNCHANGED outsideRooms

SnapshotDelivered ==
  \E identity \in DOMAIN outbox : \E n \in NextDelivery(identity) :
    OnDevicesUpdated(identity, n) /\ UNCHANGED outsideRooms

PresenceNext ==
  \/ ServerCreatesRoom
  \/ DeviceJoins
  \/ DeviceLeaves
  \/ SnapshotDelivered

PresenceSpec == RegistryInitial /\ [][PresenceNext]_vars

(***************************************************************************)
(* C20: once every snapshot sent to a member of a room has been delivered, *)
(* the devices list of that member is the room's device list; so after     *)
(* joins by 3 distinct devices the last devices_updated each of them       *)
(* handles lists exactly those 3 devices, however the deliveries to the    *)
(* different clients interleave with each other and with the joins.        *)
(***************************************************************************)
C20_LastSnapshotIsComplete ==
  \A code \in DOMAIN rooms : \A member \in rooms[code] :
    Outbox(member) = <<>> => Devices(member) = Snapshot(rooms[code])

\* all devices have joined, every snapshot was delivered, and every client
\* lists all of them
C20_Witness ==
  /\ \E code \in DOMAIN rooms : rooms[code] = Members
  /\ \A member \in Members :
       /\ Outbox(member) = <<>>
       /\ Len(Devices(member)) = MaxMembers
       /\ {Devices(member)[i].id : i \in 1..MaxMembers} = Members

(***************************************************************************)
(* The sender's stream of one file, as the spec orders it: the manifest,   *)
(* then each chunk by index, then the completion signal.  The socket       *)
(* delivers the events in that order, unaltered; each handler runs when    *)
(* its event arrives, and the digests complete whenever they complete.     *)
(***************************************************************************)
\* the events of the stream of fid: 1 manifest, the chunks, 1 completion
StreamLength(fid) == Len(Chunks(fid)) + 2

\* socket.on('file_manifest') for the first event of a stream
StreamManifest ==
  \E fid \in FileIds :
    /\ sent[fid] = 0
    /\ sent' = [sent EXCEPT ![fid] = 1]
    /\ handleManifest("none", ProducerManifestEvent(fid, source[fid]))
    /\ Admits(MaxStreaming)
    /\ Caught
    /\ UNCHANGED <<tampered, delivered, outsideTransfer>>

\* socket.on('file_chunk') for the next chunk of a stream
StreamChunk ==
  \E fid \in FileIds :
    /\ sent[fid] \in 1..Len(Chunks(fid))
    /\ sent' = [sent EXCEPT ![fid] = @ + 1]
    /\ handleChunk("none", ProducerChunkEvent(fid, source[fid], sent[fid] - 1))
    /\ Admits(MaxStreaming)
    /\ Caught
    /\ UNCHANGED <<tampered, delivered, outsideTransfer>>

\* socket.on('file_transfer_complete') for the last event of a stream
StreamComplete ==
  \E fid \in FileIds :
    /\ sent[fid] = StreamLength(fid) - 1
    /\ sent' = [sent EXCEPT ![fid] = @ + 1]
    /\ finalize(fid)
    /\ Caught
    /\ UNCHANGED <<delivered, outsideTransfer>>

\* a browser with Web Crypto, nothing received yet
StreamInitial == Init /\ cryptoSubtle

StreamNext ==
  \/ StreamManifest
  \/ StreamChunk
  \/ StreamComplete
  \/ ManifestDigestDone
  \/ ChunkDigestDone

\* every event the sender emitted is delivered and every digest requested
\* of crypto.subtle completes
StreamSpec ==
  /\ StreamInitial
  /\ [][StreamNext]_vars
  /\ WF_vars(StreamManifest) /\ WF_vars(StreamChunk) /\ WF_vars(StreamComplete)
  /\ WF_vars(ManifestDigestDone) /\ WF_vars(ChunkDigestDone)

\* onComplete was just called for fid
DeliveredNow(fid) ==
  last.op = "finalize" /\ last.result = "ok" /\ last.file_id = fid

(***************************************************************************)
(* C21: when file_manifest, then all N valid file_chunk events, then       *)
(* file_transfer_complete are delivered in that order, the file is         *)
(* eventually delivered to the user and no error is raised, for every      *)
(* interleaving of the digest computations with the handling of the later  *)
(* events.                                                                 *)
(* As stated this fails: the handlers do not wait for the digest of the    *)
(* event before, so a chunk that arrives while the manifest's signature is *)
(* being computed finds no session.                                        *)
(***************************************************************************)
C21_OrderedStreamIsDelivered ==
  /\ [][~Thrown(last')]_vars
  /\ \A fid \in FileIds : <>DeliveredNow(fid)

(***************************************************************************)
(* C22: when several handleChunk calls for distinct valid indices of one   *)
(* session are in flight at once, each call that completes stores its own  *)
(* payload in its own slot, leaves every other slot as it was and raises   *)
(* the received-count by exactly one; so after all of them completed the   *)
(* count has grown by the number of calls (no lost update).                *)
(***************************************************************************)
C22_ConcurrentChunksAllCounted ==
  [][(last'.op = "handleChunk" /\ last'.result = "ok") =>
       \A call \in BagToSet(calls) :
         (Completes(call) /\ call.held) =>
           LET before == sessions[call.data.file_id]
               after == sessions'[call.data.file_id]
           IN /\ after.receivedChunks = before.receivedChunks + 1
              /\ after.chunkBuffers.items =
                   MapSet(before.chunkBuffers.items, call.data.chunk_index,
                          call.chunkBytes)
              /\ after.chunkBuffers.length = before.chunkBuffers.length]_vars

\* two calls were in flight for one session; the call for the later index
\* completed first and the call for index 0 is still awaiting its digest
C22_Witness ==
  /\ last.op = "handleChunk" /\ last.result = "ok"
  /\ Has(sessions, last.file_id)
  /\ Filled(sessions[last.file_id]) = {1}
  /\ sessions[last.file_id].receivedChunks = 1
  /\ \E call \in BagToSet(calls) :
       /\ call.op = "handleChunk" /\ call.held
       /\ call.data.file_id = last.file_id
       /\ call.data.chunk_index = 0

(***************************************************************************)
(* C23: in every reachable state each session's received-count equals the  *)
(* number of filled slots of its chunk array, and therefore never exceeds  *)
(* the manifest's chunk count.                                             *)
(* As stated this fails: handleChunk counts every verified chunk, also one *)
(* whose slot is filled already.                                           *)
(***************************************************************************)
C23_CountIsFilledSlots ==
  \A key \in DOMAIN sessions :
    /\ sessions[key].receivedChunks = Cardinality(Filled(sessions[key]))
    /\ sessions[key].receivedChunks <= ChunkCount(sessions[key])

(***************************************************************************)
(* Racing events: the sender's events of a file arrive in any order and    *)
(* any number of times (a file sent again supersedes its session), the     *)
(* transport may flip a bit of a chunk, and several digests are awaited at *)
(* once.  `delivered` remembers the calls of onComplete.                   *)
(***************************************************************************)
\* the ways the transport alters a chunk here
RaceTampers == {"none", "bit"}

RaceManifest ==
  \E fid \in FileIds :
    /\ handleManifest("none", ProducerManifestEvent(fid, source[fid]))
    /\ Admits(MaxRacing)
    /\ Caught
    /\ UNCHANGED <<tampered, streamVars, outsideTransfer>>

RaceChunk ==
  \E fid \in FileIds, kind \in RaceTampers :
    \E index \in 0..(Len(Chunks(fid)) - 1) :
      LET data == TamperChunk(ProducerChunkEvent(fid, source[fid], index), kind,
                              Len(Chunks(fid)))
      IN /\ ChunkAdmitted(data)
         /\ Transit(fid, kind)
         /\ handleChunk(kind, data)
         /\ Admits(MaxRacing)
         /\ Caught
         /\ UNCHANGED <<streamVars, outsideTransfer>>

\* finalize, and the download onComplete starts when finalize calls it
RaceComplete ==
  \E fileId \in FileIds :
    /\ finalize(fileId)
    /\ Caught
    /\ delivered' = IF last'.result = "ok" THEN delivered \cup {fileId}
                    ELSE delivered
    /\ UNCHANGED <<sent, outsideTransfer>>

\* an accepted manifest opens a new session, with nothing delivered for it
RaceManifestDone ==
  \E call \in BagToSet(calls) :
    /\ handleManifestResume(call)
    /\ Caught
    /\ delivered' = IF last'.result = "ok" THEN delivered \ {last'.file_id}
                    ELSE delivered
    /\ UNCHANGED <<sent, outsideTransfer>>

RaceInitial == Init /\ cryptoSubtle

RaceNext ==
  \/ RaceManifest
  \/ RaceChunk
  \/ RaceComplete
  \/ RaceManifestDone
  \/ ChunkDigestDone

RaceSpec == RaceInitial /\ [][RaceNext]_vars

(***************************************************************************)
(* C24: a chunk hash mismatch discards only the session the chunk was      *)
(* verified against: when a handleChunk call looked up a session, a new    *)
(* manifest for the same file_id replaced that session while the digest    *)
(* was being computed, and the digest then mismatches, the newer session   *)
(* is not deleted.                                                         *)
(* As stated this fails: the mismatch deletes by file_id whatever session  *)
(* the Map holds under it.                                                 *)
(***************************************************************************)
C24_MismatchSparesNewerSession ==
  [][(last'.op = "handleChunk" /\ last'.result = ChunkHashMismatch) =>
       \A call \in BagToSet(calls) :
         (Completes(call) /\ ~call.held /\ Has(sessions, call.data.file_id)) =>
           /\ Has(sessions', call.data.file_id)
           /\ sessions'[call.data.file_id] = sessions[call.data.file_id]]_vars

(***************************************************************************)
(* C26: the deliver sink is invoked at most once per accepted manifest:    *)
(* whatever chunk deliveries and finalize calls follow a successful        *)
(* handleManifest, onComplete is not called for a file_id it was called    *)
(* for already since a manifest was last accepted under that file_id.      *)
(***************************************************************************)
C26_DeliversAtMostOnce ==
  [][Delivers => last'.file_id \notin delivered]_vars

\* a file was delivered, and a later finalize for it was refused
C26_Witness ==
  /\ last.op = "finalize"
  /\ last.result = UnknownTransfer
  /\ last.file_id \in delivered

(***************************************************************************)
(* C25: a session is always stored under the file_id its accepted          *)
(* signature covers: the key of every session in the Map equals the        *)
(* file_id of the session's manifest, so a manifest signed for file A      *)
(* never creates or replaces the session of another file B.                *)
(* As stated this fails: the key is the file_id of the event, which the    *)
(* signature does not cover.                                               *)
(***************************************************************************)
C25_SessionKeyIsSignedFileId ==
  \A key \in DOMAIN sessions : Field(sessions[key].manifest, "file_id") = key

(***************************************************************************)
(* C27: whenever finalize delivers a file, the length of the delivered     *)
(* byte sequence equals the total_size of the accepted manifest.           *)
(* As stated this fails: finalize compares only the received-count, which  *)
(* a repeated chunk raises while a slot stays empty.                       *)
(***************************************************************************)
C27_DeliveredLengthIsTotalSize ==
  [][Delivers =>
       Len(last'.blob) = sessions[last'.file_id].manifest.total_size]_vars

(***************************************************************************)
(* Vocabulary of the upload lifecycle signals.                             *)
(***************************************************************************)
LifecycleSignals == {"upload_start", "upload_progress", "upload_complete"}

FileNames == {"a.txt", "b.png"}

\* the last step emitted the signal `event` for the file `filename`
Emitted(event, filename) ==
  \E n \in 1..Len(emitted) :
    emitted[n].event = event /\ emitted[n].filename = filename

\* the step starts the request of the call `id` for the file `filename`: the
\* call is new, or its request before has just ended
Starts(id, filename) ==
  /\ id \in DOMAIN uploads'
  /\ uploads'[id].file = filename
  /\ uploads'[id].room_code # <<>>
  /\ id \in DOMAIN uploads => Aborted(id)

(***************************************************************************)
(* C28: for each file the client uploads while in a room the lifecycle     *)
(* signals come in order.  upload_progress is emitted only for a file      *)
(* whose request was announced and is in flight before and after the step; *)
(* upload_complete only for a file whose announced request ends in that    *)
(* step, and once; upload_start only for a file whose request starts in    *)
(* that step, after the upload_complete of the file of the batch before.   *)
(***************************************************************************)
C28_LifecycleSignalsInOrder ==
  [][\A n \in 1..Len(emitted') :
       LET signal == emitted'[n]
       IN /\ signal.event = "upload_progress" =>
               \E id \in Announced :
                 uploads[id].file = signal.filename /\ ~Aborted(id)
          /\ signal.event = "upload_complete" =>
               /\ \E id \in Announced :
                    uploads[id].file = signal.filename /\ Aborted(id)
               /\ \A m \in 1..Len(emitted') :
                    emitted'[m].event = "upload_complete" => m = n
          /\ signal.event = "upload_start" =>
               /\ \E id \in DOMAIN uploads' : Starts(id, signal.filename)
               /\ \A m \in 1..Len(emitted') :
                    emitted'[m].event = "upload_complete" => m < n]_vars

\* a batch of two files moved on: the first file's upload_complete, then the
\* second file's upload_start
C28_Witness ==
  /\ Len(emitted) = 2
  /\ emitted[1].event = "upload_complete" /\ emitted[1].filename = "a.txt"
  /\ emitted[2].event = "upload_start" /\ emitted[2].filename = "b.png"

(***************************************************************************)
(* C29: every upload_start the client emits is eventually followed by an   *)
(* upload_complete for the same file, whatever way the upload request      *)
(* ends: success, server-reported failure, non-2xx status, network error   *)
(* or abort.                                                               *)
(* As stated this fails: only a successful load and an abort emit          *)
(* upload_complete.                                                        *)
(***************************************************************************)
C29_StartIsFollowedByComplete ==
  \A filename \in FileNames :
    Emitted("upload_start", filename) ~> Emitted("upload_complete", filename)

(***************************************************************************)
(* C30: upload lifecycle signals are scoped to the client's current room:  *)
(* they are emitted only while the client is in a room, and each carries   *)
(* the code of the room the client is in at the moment of emission, also   *)
(* when the user leaves the room while an upload is in flight.             *)
(* As stated this fails: the handlers of a request keep the roomCode of    *)
(* the render in which the upload began.                                   *)
(***************************************************************************)
C30_SignalsCarryCurrentRoom ==
  \A n \in 1..Len(emitted) :
    emitted[n].event \in LifecycleSignals =>
      (roomCode # <<>> /\ emitted[n].room_code = roomCode)

(***************************************************************************)
(* The devices_updated handler of one client under any sequence of         *)
(* snapshots: the lists need not follow from one another, as after a       *)
(* reconnect of the client, and an event may lack its list.                *)
(***************************************************************************)
\* the client whose App is observed
Viewer == 1

\* the device lists an event may carry: devices of Members, each at most
\* once, in any order
DeviceLists ==
  UNION {{list \in [1..n -> {Device(m) : m \in Members}] :
            \A i, j \in 1..n : i # j => list[i].id # list[j].id} :
         n \in 0..MaxMembers}

\* the devices_updated events: with a list, or without one
DeviceEvents ==
  {[devices |-> list] : list \in DeviceLists} \cup {[room_code |-> "ABC123"]}

\* the socket has the next event for the Viewer, once the one before is handled
SnapshotArrives ==
  \E data \in DeviceEvents :
    /\ Outbox(Viewer) = <<>>
    /\ outbox' = MapSet(outbox, Viewer, <<data>>)
    /\ toasts' = <<>>
    /\ UNCHANGED <<rooms, reply, devices, outsideRooms>>

DevicesNext ==
  \/ SnapshotArrives
  \/ SnapshotDelivered

DevicesSpec == RegistryInitial /\ [][DevicesNext]_vars

\* the step handles the oldest event waiting for the client `identity`
Handles(identity) ==
  /\ outbox[identity] # <<>>
  /\ outbox'[identity] = Tail(outbox[identity])

\* the ids of a device list
Ids(list) == {list[i].id : i \in 1..Len(list)}

(***************************************************************************)
(* C33: after any sequence of devices_updated events the client's device   *)
(* list equals the list of the snapshot received last: each event replaces *)
(* the list by its own (never a merge with earlier snapshots), and an      *)
(* event without a list leaves the client with the empty list.             *)
(***************************************************************************)
C33_ListIsLastSnapshot ==
  [][\A identity \in DOMAIN outbox :
       Handles(identity) =>
         LET data == Head(outbox[identity])
         IN devices'[identity] =
              IF "devices" \in DOMAIN data THEN data.devices ELSE <<>>]_vars

\* a snapshot of one device replaced a longer list
C33_Witness ==
  /\ Devices(Viewer) = <<Device(3)>>
  /\ toasts = <<addToast("A device left the room", "info")>>

(***************************************************************************)
(* C34: on each devices_updated snapshot the client notifies from the diff *)
(* against the list it knew: a joined notification for every device id of  *)
(* the new snapshot that the previous list lacks, and a left notification  *)
(* whenever a device id of the previous list is absent from the snapshot.  *)
(* As stated this fails: the handler compares the lengths of the lists.    *)
(***************************************************************************)
C34_NotificationsFollowTheDiff ==
  [][\A identity \in DOMAIN outbox :
       Handles(identity) =>
         LET prevDevices == Devices(identity)
             newDevices == devices'[identity]
             said(toast) == \E n \in 1..Len(toasts') : toasts'[n] = toast
         IN /\ \A i \in 1..Len(newDevices) :
                 newDevices[i].id \notin Ids(prevDevices) =>
                   said(addToast((IF Has(newDevices[i], "name")
                                  THEN newDevices[i].name ELSE "A device")
                                 \o " joined the room!", "success"))
            /\ Ids(prevDevices) \ Ids(newDevices) # {} =>
                 said(addToast("A device left the room", "info"))]_vars


\* ---------------------------------------------------------------------------
\* App: the indicator shown while another device uploads a file
\* ---------------------------------------------------------------------------

\* the setTimeout callbacks of receiving_complete that may be pending at once
MaxClearTimers == 2

\* the percentages the relay forwards
ProgressValues == {0, 50, 100}

\* the payload of receiving_file
ReceivingFileEvents ==
  [filename : FileNames, device_info : {"Chrome on Android"}, size : {2048}]

\* the payload of receiving_progress; the handler reads nothing but progress
ReceivingProgressEvents == [filename : FileNames, progress : ProgressValues]

\* the payload of receiving_complete, which the handler does not read
ReceivingCompleteEvents == [filename : FileNames]

\* `receivingFile &&`, the test of the render and of the progress updater
Shown(indicator) == Has(indicator, "filename")

\* the pending timers, each marked as set before the indicator now created
Outdated(timers) ==
  LET marked == {[t EXCEPT !.older = TRUE] : t \in BagToSet(timers)}
  IN [t \in marked |->
        CopiesIn(t, timers) + CopiesIn([t EXCEPT !.older = FALSE], timers)]

\* socket.on('receiving_file'): a new indicator at 0 per cent
OnReceivingFile(data) ==
  /\ receivingFile' = [filename |-> data.filename, progress |-> 0,
                       device_info |-> data.device_info, size |-> data.size]
  /\ clearTimers' = Outdated(clearTimers)

\* the mutant of the receiving_progress handler that shows an indicator when
\* there is none
OnReceivingProgress_Recreates(data) ==
  /\ receivingFile' = IF Shown(receivingFile)
                      THEN [receivingFile EXCEPT !.progress = data.progress]
                      ELSE [filename |-> data.filename, progress |-> data.progress,
                            device_info |-> "Chrome on Android", size |-> 2048]
  /\ UNCHANGED clearTimers

\* socket.on('receiving_progress'): prev ? {...prev, progress} : null
OnReceivingProgress(data) ==
  /\ receivingFile' = IF Shown(receivingFile)
                      THEN [receivingFile EXCEPT !.progress = data.progress]
                      ELSE NoIndicator
  /\ UNCHANGED clearTimers

\* socket.on('receiving_complete'): setTimeout(() => setReceivingFile(null), 1500)
OnReceivingComplete(data) ==
  /\ clearTimers' = clearTimers (+) SetToBag({[of |-> data.filename, older |-> FALSE]})
  /\ UNCHANGED receivingFile

\* the callback of the timeout: setReceivingFile(null)
ClearTimeout(timer) ==
  /\ BagIn(timer, clearTimers)
  /\ clearTimers' = clearTimers (-) SetToBag({timer})
  /\ receivingFile' = NoIndicator

\* onClick of the Dismiss button
Dismiss ==
  /\ emitted' = IF roomCode # <<>>
                THEN <<[event |-> "dismiss_receiving", room_code |-> roomCode,
                        filename |-> "", more |-> ""]>>
                ELSE <<>>
  /\ receivingFile' = NoIndicator
  /\ UNCHANGED clearTimers

\* what the handlers of the indicator leave alone
outsideReceiving ==
  <<transferVars, roomEntryVars, uploads, uploadXhrRef, uploadStatus,
    uploadProgress, roomVars, streamVars, leaveVars, sessionVars>>

FileAnnounced ==
  \E data \in ReceivingFileEvents :
    /\ OnReceivingFile(data)
    /\ emitted' = <<>> /\ toasts' = <<>>
    /\ UNCHANGED outsideReceiving

ProgressArrives ==
  \E data \in ReceivingProgressEvents :
    /\ OnReceivingProgress(data)
    /\ emitted' = <<>> /\ toasts' = <<>>
    /\ UNCHANGED outsideReceiving

CompleteArrives ==
  \E data \in ReceivingCompleteEvents :
    /\ BagCardinality(clearTimers) < MaxClearTimers
    /\ OnReceivingComplete(data)
    /\ emitted' = <<>> /\ toasts' = <<>>
    /\ UNCHANGED outsideReceiving

ClearFires ==
  \E timer \in BagToSet(clearTimers) :
    /\ ClearTimeout(timer)
    /\ emitted' = <<>> /\ toasts' = <<>>
    /\ UNCHANGED outsideReceiving

\* the Dismiss button, which is rendered while receivingFile is set
UserDismisses ==
  /\ Shown(receivingFile)
  /\ Dismiss
  /\ toasts' = <<>>
  /\ UNCHANGED outsideReceiving

ReceivingNext ==
  \/ FileAnnounced
  \/ ProgressArrives
  \/ CompleteArrives
  \/ ClearFires
  \/ UserDismisses

\* the client has entered a room, or has not; no indicator is shown
ReceivingSpec == UploadInitial /\ [][ReceivingNext]_vars

\* C31: a dismissal in a room emits exactly one dismiss_receiving with the
\* client's room code and clears the indicator; while no indicator is shown,
\* only a receiving_file event creates one, so a later receiving_progress of
\* the dismissed upload does not bring it back.
C31_DismissalClearsUntilNewFile ==
  [][/\ (Shown(receivingFile) /\ ~Shown(receivingFile') /\ UserDismisses
         /\ roomCode # <<>>)
        => /\ emitted' = <<[event |-> "dismiss_receiving", room_code |-> roomCode,
                            filename |-> "", more |-> ""]>>
           /\ receivingFile' = NoIndicator
     /\ (~Shown(receivingFile) /\ Shown(receivingFile')) => FileAnnounced
     /\ (~Shown(receivingFile) /\ ProgressArrives) => ~Shown(receivingFile')]_vars

\* a dismissal in a room has just acted
C31_Witness ==
  /\ ~Shown(receivingFile)
  /\ roomCode # <<>>
  /\ Len(emitted) = 1
  /\ emitted[1].event = "dismiss_receiving"

\* the receiving_complete of the upload shown has arrived since its indicator
\* was created
OwnCompleteArrived ==
  /\ Shown(receivingFile)
  /\ BagIn([of |-> receivingFile.filename, older |-> FALSE], clearTimers)

\* C32: the delayed clear of a receiving_complete never removes an indicator
\* created by a receiving_file that arrived after that receiving_complete, as
\* long as the later upload's own receiving_complete has not arrived.
C32_ClearSparesLaterUpload ==
  [][\A timer \in BagToSet(clearTimers) :
       (/\ timer.older
        /\ Shown(receivingFile)
        /\ timer.of # receivingFile.filename
        /\ ~OwnCompleteArrived
        /\ ClearTimeout(timer)
        /\ ClearFires)
         => receivingFile' = receivingFile]_vars



\* ---------------------------------------------------------------------------
\* App: the room the socket joins again when it connects
\* ---------------------------------------------------------------------------

\* the mutant of the connect handler that emits join_room whether or not a
\* room code is kept
OnConnect_Always ==
  /\ emitted' = <<JoinRoomEvent(storedRoom)>>
  /\ UNCHANGED sessionVars

\* socket.on('connect'): join_room with the stored room code, if there is one
OnConnect ==
  /\ emitted' = IF storedRoom # <<>> THEN <<JoinRoomEvent(storedRoom)>> ELSE <<>>
  /\ UNCHANGED sessionVars

\* the socket connects, for the first time or again
SocketConnects ==
  /\ OnConnect
  /\ toasts' = <<>>
  /\ UNCHANGED <<roomEntryVars, outsideRoomEntry>>

SessionNext ==
  \/ UserTypes
  \/ UserJoins
  \/ UserScans
  \/ ServerAnswers
  \/ UserLeaves
  \/ LeaveAnswered
  \/ SocketConnects

SessionSpec == RoomEntryInitial /\ [][SessionNext]_vars

\* C35: when the socket connects it emits join_room with the stored room code
\* and the device info if a room code is stored, and emits nothing if none is;
\* after every step the stored code is the client's room, set when the client
\* enters a room and removed when its room becomes null.
C35_ConnectRejoinsStoredRoom ==
  [][/\ SocketConnects =>
          emitted' = IF storedRoom # <<>>
                     THEN <<[event |-> "join_room", room_code |-> storedRoom,
                             filename |-> "", more |-> "deviceInfo"]>>
                     ELSE <<>>
     /\ storedRoom' = roomCode']_vars

\* the socket has connected again while the client is in a room
C35_Witness ==
  /\ roomCode # <<>>
  /\ storedRoom = roomCode
  /\ leftRooms = {}
  /\ joinRequests = {}
  /\ roomLoading = FALSE
  /\ toasts = <<>>
  /\ emitted = <<JoinRoomEvent(roomCode)>>

\* C36: no join_room is emitted for a room the client has emitted leave_room
\* for, unless the user has entered that room again since.
C36_NoRejoinAfterLeave ==
  [][\A i \in 1..Len(emitted') :
       emitted'[i].event = "join_room" => emitted'[i].room_code \notin leftRooms']_vars


====
